---- MODULE Spec2Model ----
(***************************************************************************)
(* A model of the SwitchBot Go client: client construction (NewClient and  *)
(* its options), the request pipeline (Client.doRequest), the request      *)
(* signer (Client.setAuthorizationHeader), the nonce generator (getUUIDv7) *)
(* and the typed wrappers that sit on top of the pipeline.                 *)
(*                                                                         *)
(* Text is modelled as a sequence of symbols (one-character strings where  *)
(* the code formats digit by digit, longer strings where the code treats   *)
(* the text as opaque).  The HMAC-SHA256 digest and its base64 encoding    *)
(* are symbolic terms over their key and message: two signatures are equal *)
(* exactly when key and message are.                                       *)
(***************************************************************************)
EXTENDS Integers, Sequences, FiniteSets, TLC

VARIABLES
    client,     \* the *Client NewClient returned, or Nil
    newErr,     \* the error NewClient returned, or Nil
    ctorArgs,   \* the arguments of the NewClient call, or Nil before it
    clock,      \* time.Now().UnixMilli()
    call,       \* per caller: the position and locals of its API call
    evals       \* the helper functions applied so far: arguments and results

vars == <<client, newErr, ctorArgs, clock, call, evals>>

Nil == [kind |-> "nil"]

----------------------------------------------------------------------------
(* Bounds of the model.                                                    *)

\* longest option list handed to NewClient
MaxOptions == 2
\* number of goroutines sharing the client
NumCallers == 2
\* the clock runs from ClockStart to ClockStart + MaxTicks
MaxTicks == 2
\* first clock value: the low byte of the timestamp is about to carry
ClockStart == 255

Callers == 1 .. NumCallers

----------------------------------------------------------------------------
(* Text helpers.                                                           *)

RECURSIVE IndexFrom(_, _, _)
\* strings.Index: first position >= i of symbol x in s, 0 when absent
IndexFrom(s, x, i) ==
    IF i > Len(s) THEN 0
    ELSE IF s[i] = x THEN i
    ELSE IndexFrom(s, x, i + 1)

Index(s, x) == IndexFrom(s, x, 1)

Contains(s, x) == Index(s, x) # 0

HasPrefix(s, p) == Len(s) >= Len(p) /\ SubSeq(s, 1, Len(p)) = p

Tail0(s, i) == SubSeq(s, i, Len(s))

DecWords == <<"0", "1", "2", "3", "4", "5", "6", "7", "8", "9">>

RECURSIVE Itoa(_)
\* fmt's %d of n >= 0, as one piece of text
Itoa(n) ==
    IF n < 10 THEN DecWords[n + 1]
    ELSE Itoa(n \div 10) \o DecWords[(n % 10) + 1]

----------------------------------------------------------------------------
(* Errors.  A plain error is what fmt.Errorf builds: a message and, for    *)
(* %w, the wrapped cause.  An APIError carries the four fields of the      *)
(* struct in errors.go.                                                    *)

NewError(msg) == [kind |-> "error", msg |-> msg, cause |-> Nil]

Errorf(msg, cause) == [kind |-> "error", msg |-> msg, cause |-> cause]

APIError(statusCode, message, body, err) ==
    [kind |-> "APIError", StatusCode |-> statusCode, Message |-> message,
     Body |-> body, Err |-> err]

IsAPIError(e) == e.kind = "APIError"

RECURSIVE InChain(_, _)
\* errors.Is: target is e or one of the errors e wraps
InChain(e, target) ==
    IF e = Nil THEN FALSE
    ELSE IF e = target THEN TRUE
    ELSE IF e.kind = "error" THEN InChain(e.cause, target)
    ELSE InChain(e.Err, target)

----------------------------------------------------------------------------
(* net/url as the client uses it.  A URL text is a sequence of symbols:    *)
(* the delimiters ":", "/", "?", "#" are symbols of their own.             *)

DefaultBaseURL == <<"https", ":", "/", "/", "api.switch-bot.com">>

apiVersion == "v1.1"

\* a symbol holding a control byte, a malformed percent escape, a space
CtlSym == "\\n"
BadEscapeSym == "%zz"
SpaceSym == " "

\* words that consist of scheme characters only (letters first)
IsSchemeWord(x) == x \in {"http", "https", "localhost"}

EmptyURL ==
    [Scheme |-> "", Host |-> <<>>, Path |-> <<>>, RawQuery |-> <<>>,
     Fragment |-> <<>>, Opaque |-> <<>>]

\* url.getScheme: [err, scheme, rest]
getScheme(s) ==
    IF s = <<>> THEN [err |-> Nil, scheme |-> "", rest |-> s]
    ELSE IF s[1] = ":" THEN
        [err |-> NewError("missing protocol scheme"), scheme |-> "", rest |-> s]
    ELSE IF IsSchemeWord(s[1]) /\ Len(s) >= 2 /\ s[2] = ":" THEN
        [err |-> Nil, scheme |-> s[1], rest |-> Tail0(s, 3)]
    ELSE [err |-> Nil, scheme |-> "", rest |-> s]

\* strings.Cut(s, sep): the text before and after the first sep
CutBefore(s, sep) == IF Contains(s, sep) THEN SubSeq(s, 1, Index(s, sep) - 1) ELSE s
CutAfter(s, sep) == IF Contains(s, sep) THEN Tail0(s, Index(s, sep) + 1) ELSE <<>>

\* url.parse(rawURL, viaRequest = false) on the text before any "#"
parseNoFragment(u) ==
    LET g == getScheme(u)
        rest0 == CutBefore(g.rest, "?")
        query == CutAfter(g.rest, "?")
        hasAuthority == HasPrefix(rest0, <<"/", "/">>) /\
                        (g.scheme # "" \/ ~HasPrefix(rest0, <<"/", "/", "/">>))
        authority == CutBefore(Tail0(rest0, 3), "/")
        afterAuth == IF Contains(Tail0(rest0, 3), "/")
                     THEN Tail0(rest0, 2 + Index(Tail0(rest0, 3), "/"))
                     ELSE <<>>
        path == IF hasAuthority THEN afterAuth ELSE rest0
    IN  IF Contains(u, CtlSym) THEN
            [err |-> NewError("net/url: invalid control character in URL"), url |-> Nil]
        ELSE IF g.err # Nil THEN [err |-> g.err, url |-> Nil]
        ELSE IF ~HasPrefix(rest0, <<"/">>) /\ g.scheme # "" THEN
            [err |-> Nil,
             url |-> [EmptyURL EXCEPT !.Scheme = g.scheme, !.Opaque = rest0,
                                      !.RawQuery = query]]
        ELSE IF ~HasPrefix(rest0, <<"/">>) /\ Contains(CutBefore(rest0, "/"), ":") THEN
            [err |-> NewError("first path segment in URL cannot contain colon"),
             url |-> Nil]
        ELSE IF hasAuthority /\ Contains(authority, SpaceSym) THEN
            [err |-> NewError("invalid character in host name"), url |-> Nil]
        ELSE IF Contains(path, BadEscapeSym) THEN
            [err |-> NewError("invalid URL escape"), url |-> Nil]
        ELSE
            [err |-> Nil,
             url |-> [EmptyURL EXCEPT !.Scheme = g.scheme,
                                      !.Host = IF hasAuthority THEN authority ELSE <<>>,
                                      !.Path = path, !.RawQuery = query]]

\* url.Parse: [err, url]
ParseURL(rawURL) ==
    LET r == parseNoFragment(CutBefore(rawURL, "#"))
        frag == CutAfter(rawURL, "#")
    IN  IF r.err # Nil THEN [err |-> Errorf("parse", r.err), url |-> Nil]
        ELSE IF Contains(frag, BadEscapeSym) THEN
            [err |-> Errorf("parse", NewError("invalid URL escape")), url |-> Nil]
        ELSE [err |-> Nil, url |-> [r.url EXCEPT !.Fragment = frag]]

RECURSIVE Segments(_)
\* strings.Split(path, "/") of a path: the runs of symbols between "/"
Segments(p) ==
    IF ~Contains(p, "/") THEN <<p>>
    ELSE <<CutBefore(p, "/")>> \o Segments(CutAfter(p, "/"))

RECURSIVE RemoveDots(_, _)
\* the loop of url.resolvePath over the segments: "." is dropped and ".."
\* drops the segment before it; acc holds the segments kept so far
RemoveDots(segs, acc) ==
    IF segs = <<>> THEN acc
    ELSE LET s == Head(segs)
             last == Len(segs) = 1
         IN  IF s = <<".">> THEN
                 RemoveDots(Tail(segs), IF last THEN Append(acc, <<>>) ELSE acc)
             ELSE IF s = <<"..">> THEN
                 LET popped == IF acc = <<>> THEN acc ELSE SubSeq(acc, 1, Len(acc) - 1)
                 IN  RemoveDots(Tail(segs), IF last THEN Append(popped, <<>>) ELSE popped)
             ELSE RemoveDots(Tail(segs), Append(acc, s))

RECURSIVE JoinSegments(_)
\* "/" + strings.Join(segments, "/")
JoinSegments(segs) ==
    IF segs = <<>> THEN <<>>
    ELSE <<"/">> \o Head(segs) \o JoinSegments(Tail(segs))

\* url.resolvePath(base, ref)
resolvePath(base, ref) ==
    LET lastSlash == CHOOSE i \in 0 .. Len(base) :
                        /\ (i = 0 \/ base[i] = "/")
                        /\ \A j \in (i + 1) .. Len(base) : base[j] # "/"
        full == IF ref = <<>> THEN base
                ELSE IF ref[1] # "/" THEN SubSeq(base, 1, lastSlash) \o ref
                ELSE ref
    IN  IF full = <<>> THEN <<>>
        ELSE LET segs == Segments(full)
                 body == IF segs[1] = <<>> THEN Tail(segs) ELSE segs
                 kept == RemoveDots(body, <<>>)
             IN  IF kept = <<>> THEN <<"/">> ELSE JoinSegments(kept)

\* (*URL).ResolveReference
ResolveReference(u, ref) ==
    LET scheme == IF ref.Scheme = "" THEN u.Scheme ELSE ref.Scheme
    IN  IF ref.Scheme # "" \/ ref.Host # <<>> THEN
            [ref EXCEPT !.Path = resolvePath(ref.Path, <<>>)]
        ELSE IF ref.Opaque # <<>> THEN
            [ref EXCEPT !.Scheme = scheme, !.Host = <<>>, !.Path = <<>>]
        ELSE IF ref.Path = <<>> /\ u.Opaque # <<>> THEN
            [ref EXCEPT !.Scheme = scheme, !.Opaque = u.Opaque,
                        !.RawQuery = IF ref.RawQuery = <<>> THEN u.RawQuery
                                     ELSE ref.RawQuery]
        ELSE
            [ref EXCEPT !.Scheme = scheme, !.Host = u.Host,
                        !.Path = resolvePath(u.Path, ref.Path),
                        !.RawQuery = IF ref.Path = <<>> /\ ref.RawQuery = <<>>
                                     THEN u.RawQuery ELSE ref.RawQuery,
                        !.Fragment = IF ref.Path = <<>> /\ ref.RawQuery = <<>> /\
                                        ref.Fragment = <<>>
                                     THEN u.Fragment ELSE ref.Fragment]

----------------------------------------------------------------------------
(* Client construction: client.go, NewClient and the four options.         *)

\* the values an option can carry
HTTPClients == {"nil", "custom"}
Encoders == {"nil", "customOK", "customFail"}
Decoders == {"nil", "customNoop", "customFail"}
BaseURLTexts ==
    { <<"http", ":", "/", "/", "localhost:8080">>,
      <<":", "/", "/", "invalid", " ", "url">>,
      <<"api.example.com">>,
      <<"localhost", ":", "8080">> }

ClientOptions ==
    [opt : {"WithHTTPClient"}, httpClient : HTTPClients] \cup
    [opt : {"WithBaseURL"}, baseURL : BaseURLTexts] \cup
    [opt : {"WithJSONEncoder"}, encoder : Encoders] \cup
    [opt : {"WithJSONDecoder"}, decoder : Decoders]

\* WithHTTPClient(httpClient)(c): [err, client]
WithHTTPClient(httpClient, c) ==
    [err |-> Nil,
     client |-> [c EXCEPT !.httpClient = IF httpClient = "nil"
                                         THEN "http.DefaultClient"
                                         ELSE httpClient]]

\* WithBaseURL(baseURL)(c)
WithBaseURL(baseURL, c) ==
    LET parsed == ParseURL(baseURL)
    IN  IF parsed.err # Nil
        THEN [err |-> Errorf("invalid base URL", parsed.err), client |-> c]
        ELSE [err |-> Nil, client |-> [c EXCEPT !.baseURL = parsed.url]]

\* WithJSONEncoder(encoder)(c)
WithJSONEncoder(encoder, c) ==
    IF encoder = "nil"
    THEN [err |-> NewError("JSONEncoder cannot be nil"), client |-> c]
    ELSE [err |-> Nil, client |-> [c EXCEPT !.jsonEncoder = encoder]]

\* WithJSONDecoder(decoder)(c)
WithJSONDecoder(decoder, c) ==
    IF decoder = "nil"
    THEN [err |-> NewError("JSONDecoder cannot be nil"), client |-> c]
    ELSE [err |-> Nil, client |-> [c EXCEPT !.jsonDecoder = decoder]]

\* option(client)
ApplyOption(o, c) ==
    CASE o.opt = "WithHTTPClient" -> WithHTTPClient(o.httpClient, c)
      [] o.opt = "WithBaseURL" -> WithBaseURL(o.baseURL, c)
      [] o.opt = "WithJSONEncoder" -> WithJSONEncoder(o.encoder, c)
      [] o.opt = "WithJSONDecoder" -> WithJSONDecoder(o.decoder, c)

RECURSIVE ApplyOptions_SkipsFailing(_, _)
\* the loop over options going past an option that fails
ApplyOptions_SkipsFailing(options, c) ==
    IF options = <<>> THEN [err |-> Nil, client |-> c]
    ELSE LET r == ApplyOption(Head(options), c)
         IN  IF r.err # Nil
             THEN ApplyOptions_SkipsFailing(Tail(options), c)
             ELSE ApplyOptions_SkipsFailing(Tail(options), r.client)

RECURSIVE ApplyOptions(_, _)
\* the loop over options: stops at the first option that fails
ApplyOptions(options, c) ==
    IF options = <<>> THEN [err |-> Nil, client |-> c]
    ELSE LET r == ApplyOption(Head(options), c)
         IN  IF r.err # Nil
             THEN [err |-> Errorf("failed to apply client option", r.err),
                   client |-> Nil]
             ELSE ApplyOptions(Tail(options), r.client)

\* the client NewClient starts from
DefaultClient(token, secret) ==
    [kind |-> "client", httpClient |-> "http.DefaultClient",
     baseURL |-> ParseURL(DefaultBaseURL).url, token |-> token, secret |-> secret,
     jsonEncoder |-> "json.Marshal", jsonDecoder |-> "json.Unmarshal"]

\* a variant of NewClient: only the token is checked
NewClient_ChecksTokenOnly(token, secret, options) ==
    IF token = <<>>
    THEN [err |-> NewError("token and secret must not be empty"), client |-> Nil]
    ELSE ApplyOptions(options, DefaultClient(token, secret))

\* NewClient(token, secret, options...): [err, client]
NewClient(token, secret, options) ==
    IF token = <<>> \/ secret = <<>>
    THEN [err |-> NewError("token and secret must not be empty"), client |-> Nil]
    ELSE ApplyOptions(options, DefaultClient(token, secret))

----------------------------------------------------------------------------
(* Timestamp and nonce: generateTimestamp, getUUIDv7, getUUIDv7String,     *)
(* generateNonce.                                                          *)

DecDigits == <<"0", "1", "2", "3", "4", "5", "6", "7", "8", "9">>
HexDigits == DecDigits \o <<"a", "b", "c", "d", "e", "f">>

RECURSIVE FormatInt(_)
\* strconv.FormatInt(n, 10) for n >= 0
FormatInt(n) ==
    IF n < 10 THEN <<DecDigits[n + 1]>>
    ELSE FormatInt(n \div 10) \o <<DecDigits[(n % 10) + 1]>>

\* generateTimestamp giving seconds
generateTimestamp_Seconds(now) == FormatInt(now \div 1000)

\* generateTimestamp() when the clock reads now
generateTimestamp(now) == FormatInt(now)

RECURSIVE FillBytes(_, _)
\* big.Int.FillBytes: n as k big-endian bytes
FillBytes(n, k) ==
    IF k = 0 THEN <<>>
    ELSE FillBytes(n \div 256, k - 1) \o <<n % 256>>

\* what crypto/rand.Read leaves in the 16-byte buffer: every byte is one of
\* these, bytes 6 and 8 and the rest drawn independently
RandByteValues == {0, 165, 255}

RandomReads ==
    { [err |-> Nil,
       bytes |-> [i \in 1 .. 16 |-> IF i = 7 THEN b6 ELSE IF i = 9 THEN b8 ELSE fill]] :
         b6 \in RandByteValues, b8 \in RandByteValues, fill \in RandByteValues }
    \cup
    { [err |-> NewError("crypto/rand: read failed"), bytes |-> [i \in 1 .. 16 |-> 0]] }

ZeroRead == [err |-> Nil, bytes |-> [i \in 1 .. 16 |-> 0]]

\* getUUIDv7 writing version 4 into byte 6
getUUIDv7_Version4(rnd, now) ==
    IF rnd.err # Nil THEN [err |-> rnd.err, value |-> rnd.bytes]
    ELSE LET ts == FillBytes(now, 6)
         IN  [err |-> Nil,
              value |-> [i \in 1 .. 16 |->
                            IF i <= 6 THEN ts[i]
                            ELSE IF i = 7 THEN (rnd.bytes[7] % 16) + 64
                            ELSE IF i = 9 THEN (rnd.bytes[9] % 64) + 128
                            ELSE rnd.bytes[i]]]

\* getUUIDv7 leaving the timestamp bytes zero
getUUIDv7_NoTimestamp(rnd, now) ==
    IF rnd.err # Nil THEN [err |-> rnd.err, value |-> rnd.bytes]
    ELSE [err |-> Nil,
          value |-> [i \in 1 .. 16 |->
                        IF i <= 6 THEN 0
                        ELSE IF i = 7 THEN (rnd.bytes[7] % 16) + 112
                        ELSE IF i = 9 THEN (rnd.bytes[9] % 64) + 128
                        ELSE rnd.bytes[i]]]

\* getUUIDv7() when rand.Read gives rnd and the clock reads now: [err, value]
getUUIDv7(rnd, now) ==
    IF rnd.err # Nil THEN [err |-> rnd.err, value |-> rnd.bytes]
    ELSE LET ts == FillBytes(now, 6)
         IN  [err |-> Nil,
              value |-> [i \in 1 .. 16 |->
                            IF i <= 6 THEN ts[i]
                            ELSE IF i = 7 THEN (rnd.bytes[7] % 16) + 112
                            ELSE IF i = 9 THEN (rnd.bytes[9] % 64) + 128
                            ELSE rnd.bytes[i]]]

RECURSIVE HexOf(_)
\* fmt's %x of a byte slice: two lowercase digits per byte
HexOf(bytes) ==
    IF bytes = <<>> THEN <<>>
    ELSE <<HexDigits[(Head(bytes) \div 16) + 1], HexDigits[(Head(bytes) % 16) + 1]>>
         \o HexOf(Tail(bytes))

\* getUUIDv7String(): [err, uuid]
getUUIDv7String(rnd, now) ==
    LET r == getUUIDv7(rnd, now)
        v == r.value
    IN  IF r.err # Nil THEN [err |-> r.err, uuid |-> <<>>]
        ELSE [err |-> Nil,
              uuid |-> HexOf(SubSeq(v, 1, 4)) \o <<"-">> \o HexOf(SubSeq(v, 5, 6))
                       \o <<"-">> \o HexOf(SubSeq(v, 7, 8)) \o <<"-">>
                       \o HexOf(SubSeq(v, 9, 10)) \o <<"-">> \o HexOf(SubSeq(v, 11, 16))]

\* generateNonce(): the error of getUUIDv7String is dropped
generateNonce(rnd, now) == getUUIDv7String(rnd, now).uuid

----------------------------------------------------------------------------
(* The signer: setAuthorizationHeader.                                     *)

\* hmac.New(sha256.New, key) over msg, as a term
HmacSHA256(key, msg) == <<"hmac-sha256(key=">> \o key \o <<",msg=">> \o msg \o <<")">>

\* base64.StdEncoding.EncodeToString, as a term
Base64Std(digest) == <<"base64(">> \o digest \o <<")">>

\* textproto.CanonicalMIMEHeaderKey on the names the client uses
CanonicalKey(name) ==
    CASE name = "t" -> "T"
      [] name = "sign" -> "Sign"
      [] name = "nonce" -> "Nonce"
      [] OTHER -> name

\* http.Header.Set and http.Header.Get
HeaderSet(h, name, value) ==
    [k \in DOMAIN h \cup {CanonicalKey(name)} |->
        IF k = CanonicalKey(name) THEN <<value>> ELSE h[k]]

HeaderGet(h, name) ==
    IF CanonicalKey(name) \in DOMAIN h /\ h[CanonicalKey(name)] # <<>>
    THEN h[CanonicalKey(name)][1]
    ELSE <<>>

ContentTypeJSON == <<"application/json; charset=utf-8">>

\* a variant of Signature: the token is used as the HMAC key
Signature_KeyIsToken(c, t, n) == Base64Std(HmacSHA256(c.token, c.token \o t \o n))

\* the signature setAuthorizationHeader computes from t and n
Signature(c, t, n) == Base64Std(HmacSHA256(c.secret, c.token \o t \o n))

\* setAuthorizationHeader putting the secret where the token belongs
setAuthorizationHeader_SendsSecret(c, header, nowT, nowN, rnd) ==
    LET t == generateTimestamp(nowT)
        n == generateNonce(rnd, nowN)
        signature == Signature(c, t, n)
        h1 == HeaderSet(header, "Authorization", c.secret)
        h2 == HeaderSet(h1, "t", t)
        h3 == HeaderSet(h2, "sign", signature)
        h4 == HeaderSet(h3, "nonce", n)
    IN  HeaderSet(h4, "Content-Type", ContentTypeJSON)

\* setAuthorizationHeader(req): the clock reads nowT for the timestamp and
\* nowN inside getUUIDv7; rnd is what rand.Read gives.  The header after it.
setAuthorizationHeader(c, header, nowT, nowN, rnd) ==
    LET t == generateTimestamp(nowT)
        n == generateNonce(rnd, nowN)
        signature == Signature(c, t, n)
        h1 == HeaderSet(header, "Authorization", c.token)
        h2 == HeaderSet(h1, "t", t)
        h3 == HeaderSet(h2, "sign", signature)
        h4 == HeaderSet(h3, "nonce", n)
    IN  HeaderSet(h4, "Content-Type", ContentTypeJSON)

----------------------------------------------------------------------------
(* JSON as the client meets it.  A response on the wire is a document: not *)
(* JSON at all, the literal null, or an object whose statusCode, message   *)
(* and body members are each absent or present.  The body member is kept   *)
(* as its raw text (json.RawMessage).                                      *)

DevicesJSON == "{\"deviceList\":[{\"deviceId\":\"D1\"}],\"infraredRemoteList\":[]}"
CommandJSON == "{\"commandId\":\"CMD1\"}"

\* the raw texts a body member can hold
BodyTexts == {"null", "{}", "[]", DevicesJSON, CommandJSON}

\* a variant of knownErrorCodes: hub offline (171) was left out
knownErrorCodes_Without171 == {151, 152, 160, 161, 190}

knownErrorCodes == {151, 152, 160, 161, 171, 190}

\* the application codes a server sends: success, the known errors, and one
\* code the client does not know
WireStatusCodes == {100, 101, 151, 152, 160, 161, 171, 190}

Absent == [t |-> "absent"]

WireDocs ==
    { [doc |-> "garbage", text |-> "<html>"], [doc |-> "garbage", text |-> ""],
      [doc |-> "null", text |-> "null"] }
    \cup
    [doc : {"object"},
     statusCode : {Absent, [t |-> "str", v |-> "100"]} \cup
                  [t : {"num"}, v : WireStatusCodes],
     message : {Absent, [t |-> "str", v |-> "device offline"]},
     body : {Absent} \cup [t : {"raw"}, v : BodyTexts]]

RECURSIVE JoinComma(_)
\* strings.Join(parts, ",")
JoinComma(parts) ==
    IF parts = <<>> THEN ""
    ELSE IF Len(parts) = 1 THEN parts[1]
    ELSE parts[1] \o "," \o JoinComma(Tail(parts))

\* the bytes of a document, as io.ReadAll returns them
WireText(data) ==
    IF data.doc # "object" THEN data.text
    ELSE "{" \o JoinComma(
             (CASE data.statusCode.t = "absent" -> <<>>
                [] data.statusCode.t = "num" ->
                      <<"\"statusCode\":" \o Itoa(data.statusCode.v)>>
                [] data.statusCode.t = "str" ->
                      <<"\"statusCode\":\"" \o data.statusCode.v \o "\"">>)
             \o (IF data.message.t = "str"
                 THEN <<"\"message\":\"" \o data.message.v \o "\"">> ELSE <<>>)
             \o (IF data.body.t = "raw" THEN <<"\"body\":" \o data.body.v>> ELSE <<>>))
         \o "}"

\* the zero Response
ZeroResponse == [kind |-> "Response", StatusCode |-> 0, Message |-> "", Body |-> ""]

\* json.Unmarshal(data, &apiResp): [err, resp]
jsonUnmarshalResponse(data) ==
    CASE data.doc = "garbage" ->
            [err |-> NewError("json: syntax error"), resp |-> ZeroResponse]
      [] data.doc = "null" -> [err |-> Nil, resp |-> ZeroResponse]
      [] data.doc = "object" ->
            [err |-> IF data.statusCode.t = "str"
                     THEN NewError("json: cannot unmarshal string into Go struct field Response.statusCode of type int")
                     ELSE Nil,
             resp |-> [kind |-> "Response",
                       StatusCode |-> IF data.statusCode.t = "num"
                                      THEN data.statusCode.v ELSE 0,
                       Message |-> IF data.message.t = "str" THEN data.message.v ELSE "",
                       Body |-> IF data.body.t = "raw" THEN data.body.v ELSE ""]]

\* c.jsonDecoder(respBodyBytes, &apiResp): [err, resp]
Decode(decoder, data) ==
    CASE decoder = "json.Unmarshal" -> jsonUnmarshalResponse(data)
      [] decoder = "customNoop" -> [err |-> Nil, resp |-> ZeroResponse]
      [] decoder = "customFail" ->
            [err |-> NewError("custom decoder failed"), resp |-> ZeroResponse]

\* the Go values a command parameter can be
Parameters ==
    { [t |-> "nil", v |-> <<>>], [t |-> "string", v |-> <<"default">>],
      [t |-> "string", v |-> <<"on">>], [t |-> "chan", v |-> <<>>] }

RECURSIVE JoinURLs(_)
\* json.Marshal of the elements of a []string of URLs
JoinURLs(urls) ==
    IF urls = <<>> THEN <<>>
    ELSE <<"\"">> \o Head(urls) \o <<"\"">>
         \o (IF Tail(urls) = <<>> THEN <<>> ELSE <<",">> \o JoinURLs(Tail(urls)))

\* json.Marshal of a request body: [err, bytes]
jsonMarshal(v) ==
    CASE v.kind = "CommandRequest" ->
            IF v.Parameter.t = "chan"
            THEN [err |-> NewError("json: unsupported type: chan int"), bytes |-> <<>>]
            ELSE [err |-> Nil,
                  bytes |-> <<"{\"command\":\"">> \o v.Command
                            \o <<"\",\"commandType\":\"">>
                            \o v.CommandType \o <<"\",\"parameter\":">>
                            \o (IF v.Parameter.t = "nil" THEN <<"null">>
                                ELSE <<"\"">> \o v.Parameter.v \o <<"\"">>)
                            \o <<"}">>]
      [] v.kind = "WebhookSetupRequest" ->
            [err |-> Nil,
             bytes |-> <<"{\"action\":\"">> \o v.Action \o <<"\",\"url\":\"">> \o v.URL
                       \o <<"\",\"deviceList\":\"">> \o v.DeviceList \o <<"\"}">>]
      [] v.kind = "WebhookQueryRequest" ->
            [err |-> Nil,
             bytes |-> <<"{\"action\":\"">> \o v.Action \o <<"\"">>
                       \o (IF v.URLs = <<>> THEN <<>>
                           ELSE <<",\"urls\":[">> \o JoinURLs(v.URLs) \o <<"]">>)
                       \o <<"}">>]
      [] v.kind = "WebhookUpdateRequest" ->
            [err |-> Nil,
             bytes |-> <<"{\"action\":\"">> \o v.Action
                       \o <<"\",\"config\":{\"url\":\"">> \o v.Config.URL
                       \o <<"\",\"enable\":">>
                       \o (IF v.Config.Enable THEN <<"true">> ELSE <<"false">>)
                       \o <<"}}">>]
      [] v.kind = "WebhookDeleteRequest" ->
            [err |-> Nil,
             bytes |-> <<"{\"action\":\"">> \o v.Action \o <<"\",\"url\":\"">> \o v.URL
                       \o <<"\"}">>]

\* c.jsonEncoder(requestBody): [err, bytes]
Encode(encoder, v) ==
    CASE encoder = "json.Marshal" -> jsonMarshal(v)
      [] encoder = "customOK" -> [err |-> Nil, bytes |-> <<"encoded">>]
      [] encoder = "customFail" ->
            [err |-> NewError("custom encoder failed"), bytes |-> <<>>]

\* isEmptyJSONBody that also takes an empty array for an empty body
isEmptyJSONBody_AlsoEmptyArray(body) ==
    Len(body) = 0 \/ body = "{}" \/ body = "null" \/ body = "[]"

\* isEmptyJSONBody(body)
isEmptyJSONBody(body) == Len(body) = 0 \/ body = "{}" \/ body = "null"

----------------------------------------------------------------------------
(* APIError.Error().  The text is kept as the sequence of the pieces the   *)
(* three Sprintf calls write: the formats' literal parts and the values    *)
(* of their verbs.                                                         *)

RECURSIVE ConcatText(_)
\* the pieces written one after the other
ConcatText(pieces) ==
    IF pieces = <<>> THEN "" ELSE Head(pieces) \o ConcatText(Tail(pieces))

RECURSIVE ErrorText(_)
\* err.Error() of a plain error: fmt.Errorf("msg: %w", cause)
ErrorText(err) ==
    IF err.cause = Nil THEN err.msg ELSE err.msg \o ": " \o ErrorText(err.cause)

\* Error() writing the body whatever it holds
Error_AlwaysBody(e) ==
    <<"SwitchBot API error: statusCode=", Itoa(e.StatusCode), ", message='", e.Message, "'">>
    \o <<", body=", e.Body>>
    \o (IF e.Err # Nil THEN <<" (caused by: ", ErrorText(e.Err), ")">> ELSE <<>>)

\* (e *APIError).Error()
Error(e) ==
    <<"SwitchBot API error: statusCode=", Itoa(e.StatusCode), ", message='", e.Message, "'">>
    \o (IF ~isEmptyJSONBody(e.Body) THEN <<", body=", e.Body>> ELSE <<>>)
    \o (IF e.Err # Nil THEN <<" (caused by: ", ErrorText(e.Err), ")">> ELSE <<>>)

----------------------------------------------------------------------------

(* The request pipeline: Client.doRequest, split at its one suspension     *)
(* point, the transport call.                                              *)

EmptyHeader == << >>

\* doRequestSend going on to build and sign the request after the encoder
\* failed
doRequestSend_IgnoresEncodeError(c, ctx, method, path, requestBody, nowT, nowN, rnd) ==
    LET rel == ParseURL(path)
        absURL == ResolveReference(c.baseURL, rel.url)
        enc == Encode(c.jsonEncoder, requestBody)
        steps1 == <<"resolve">>
        steps2 == IF requestBody # Nil THEN Append(steps1, "encode") ELSE steps1
    IN  IF rel.err # Nil THEN
            [err |-> Errorf("invalid path", rel.err), req |-> Nil, steps |-> steps1]
        ELSE IF ctx = "nil" THEN
            [err |-> Errorf("failed to create request", NewError("net/http: nil Context")),
             req |-> Nil, steps |-> Append(steps2, "build")]
        ELSE
            [err |-> Nil,
             req |-> [kind |-> "Request", method |-> method, url |-> absURL,
                      body |-> IF requestBody # Nil THEN enc.bytes ELSE <<>>,
                      header |-> setAuthorizationHeader(c, EmptyHeader, nowT, nowN, rnd)],
             steps |-> steps2 \o <<"build", "sign">>]

\* doRequestSend signing before the body is encoded and the request built
doRequestSend_SignsFirst(c, ctx, method, path, requestBody, nowT, nowN, rnd) ==
    LET rel == ParseURL(path)
        absURL == ResolveReference(c.baseURL, rel.url)
        enc == Encode(c.jsonEncoder, requestBody)
        steps1 == <<"resolve", "sign">>
        steps2 == IF requestBody # Nil THEN Append(steps1, "encode") ELSE steps1
    IN  IF rel.err # Nil THEN
            [err |-> Errorf("invalid path", rel.err), req |-> Nil, steps |-> <<"resolve">>]
        ELSE IF requestBody # Nil /\ enc.err # Nil THEN
            [err |-> Errorf("failed to marshal request body", enc.err), req |-> Nil,
             steps |-> steps2]
        ELSE IF ctx = "nil" THEN
            [err |-> Errorf("failed to create request", NewError("net/http: nil Context")),
             req |-> Nil, steps |-> Append(steps2, "build")]
        ELSE
            [err |-> Nil,
             req |-> [kind |-> "Request", method |-> method, url |-> absURL,
                      body |-> IF requestBody # Nil THEN enc.bytes ELSE <<>>,
                      header |-> setAuthorizationHeader(c, EmptyHeader, nowT, nowN, rnd)],
             steps |-> steps2 \o <<"build">>]

\* lines 121-143 of doRequest: resolve the path, encode the body, build the
\* request and sign it.  [err, req, steps, rnd]: steps names what ran.
doRequestSend(c, ctx, method, path, requestBody, nowT, nowN, rnd) ==
    LET rel == ParseURL(path)
        absURL == ResolveReference(c.baseURL, rel.url)
        enc == Encode(c.jsonEncoder, requestBody)
        steps1 == <<"resolve">>
        steps2 == IF requestBody # Nil THEN Append(steps1, "encode") ELSE steps1
    IN  IF rel.err # Nil THEN
            [err |-> Errorf("invalid path", rel.err), req |-> Nil, steps |-> steps1]
        ELSE IF requestBody # Nil /\ enc.err # Nil THEN
            [err |-> Errorf("failed to marshal request body", enc.err), req |-> Nil,
             steps |-> steps2]
        ELSE IF ctx = "nil" THEN
            [err |-> Errorf("failed to create request", NewError("net/http: nil Context")),
             req |-> Nil, steps |-> Append(steps2, "build")]
        ELSE
            [err |-> Nil,
             req |-> [kind |-> "Request", method |-> method, url |-> absURL,
                      body |-> IF requestBody # Nil THEN enc.bytes ELSE <<>>,
                      header |-> setAuthorizationHeader(c, EmptyHeader, nowT, nowN, rnd)],
             steps |-> steps2 \o <<"build", "sign">>]

\* a variant of classify: the decoded envelope is handed back with the
\* error for an HTTP status from 400 up
classify_EnvelopeWithError(apiResp, httpStatus) ==
    IF apiResp.StatusCode # 100 /\ apiResp.StatusCode \in knownErrorCodes THEN
        [resp |-> Nil,
         err |-> APIError(apiResp.StatusCode, apiResp.Message, apiResp.Body,
                          NewError("received API status code " \o Itoa(apiResp.StatusCode)))]
    ELSE IF httpStatus >= 400 THEN
        [resp |-> apiResp,
         err |-> APIError(httpStatus,
                          IF apiResp.Message = ""
                          THEN "Received HTTP " \o Itoa(httpStatus) \o " error"
                          ELSE apiResp.Message,
                          apiResp.Body,
                          NewError("received HTTP status code " \o Itoa(httpStatus)))]
    ELSE [resp |-> apiResp, err |-> Nil]

\* a variant of classify: only an HTTP status from 500 up is raised
classify_RaisesFrom500(apiResp, httpStatus) ==
    IF apiResp.StatusCode # 100 /\ apiResp.StatusCode \in knownErrorCodes THEN
        [resp |-> Nil,
         err |-> APIError(apiResp.StatusCode, apiResp.Message, apiResp.Body,
                          NewError("received API status code " \o Itoa(apiResp.StatusCode)))]
    ELSE IF httpStatus >= 500 THEN
        [resp |-> Nil,
         err |-> APIError(httpStatus,
                          IF apiResp.Message = ""
                          THEN "Received HTTP " \o Itoa(httpStatus) \o " error"
                          ELSE apiResp.Message,
                          apiResp.Body,
                          NewError("received HTTP status code " \o Itoa(httpStatus)))]
    ELSE [resp |-> apiResp, err |-> Nil]

\* a variant of classify: every status from 300 up is raised as an error
classify_RaisesFrom300(apiResp, httpStatus) ==
    IF apiResp.StatusCode # 100 /\ apiResp.StatusCode \in knownErrorCodes THEN
        [resp |-> Nil,
         err |-> APIError(apiResp.StatusCode, apiResp.Message, apiResp.Body,
                          NewError("received API status code " \o Itoa(apiResp.StatusCode)))]
    ELSE IF httpStatus >= 300 THEN
        [resp |-> Nil,
         err |-> APIError(httpStatus, apiResp.Message, apiResp.Body,
                          NewError("received HTTP status code " \o Itoa(httpStatus)))]
    ELSE [resp |-> apiResp, err |-> Nil]

\* a variant of classify: every statusCode other than 100 is raised
classify_RaisesEveryNon100(apiResp, httpStatus) ==
    IF apiResp.StatusCode # 100 THEN
        [resp |-> Nil,
         err |-> APIError(apiResp.StatusCode, apiResp.Message, apiResp.Body,
                          NewError("received API status code " \o Itoa(apiResp.StatusCode)))]
    ELSE IF httpStatus >= 400 THEN
        [resp |-> Nil,
         err |-> APIError(httpStatus, apiResp.Message, apiResp.Body,
                          NewError("received HTTP status code " \o Itoa(httpStatus)))]
    ELSE [resp |-> apiResp, err |-> Nil]

\* lines 175-214 of doRequest: the decoded envelope and the HTTP status to
\* the pair doRequest returns, [resp, err]
classify(apiResp, httpStatus) ==
    IF apiResp.StatusCode # 100 /\ apiResp.StatusCode \in knownErrorCodes THEN
        [resp |-> Nil,
         err |-> APIError(apiResp.StatusCode, apiResp.Message, apiResp.Body,
                          NewError("received API status code " \o Itoa(apiResp.StatusCode)))]
    ELSE IF httpStatus >= 400 THEN
        [resp |-> Nil,
         err |-> APIError(httpStatus,
                          IF apiResp.Message = ""
                          THEN "Received HTTP " \o Itoa(httpStatus) \o " error"
                          ELSE apiResp.Message,
                          apiResp.Body,
                          NewError("received HTTP status code " \o Itoa(httpStatus)))]
    ELSE [resp |-> apiResp, err |-> Nil]

\* a variant of decodeFailure: status 400 itself is not taken as an error
decodeFailure_Above400(httpStatus, respBodyBytes, decodeErr) ==
    IF httpStatus > 400 THEN
        [resp |-> Nil,
         err |-> APIError(httpStatus,
                          "Received HTTP " \o Itoa(httpStatus)
                              \o " error with unparsable body",
                          respBodyBytes, decodeErr)]
    ELSE
        [resp |-> Nil,
         err |-> Errorf("failed to unmarshal successful response body", decodeErr)]

\* lines 156-170 of doRequest: the decoder failed with decodeErr on the raw
\* bytes of a response with this HTTP status
decodeFailure(httpStatus, respBodyBytes, decodeErr) ==
    IF httpStatus >= 400 THEN
        [resp |-> Nil,
         err |-> APIError(httpStatus,
                          "Received HTTP " \o Itoa(httpStatus)
                              \o " error with unparsable body",
                          respBodyBytes, decodeErr)]
    ELSE
        [resp |-> Nil,
         err |-> Errorf("failed to unmarshal successful response body", decodeErr)]

\* a variant of doRequestReceive: a transport failure is reported as an
\* APIError with status 0
doRequestReceive_TransportAsAPIError(c, outcome) ==
    LET dec == Decode(c.jsonDecoder, outcome.body)
    IN  IF outcome.err # Nil THEN
            [resp |-> Nil, err |-> APIError(0, "request failed", "", outcome.err),
             steps |-> <<"dispatch">>]
        ELSE IF outcome.readErr # Nil THEN
            [resp |-> Nil, err |-> Errorf("failed to read response body", outcome.readErr),
             steps |-> <<"dispatch", "read">>]
        ELSE IF dec.err # Nil THEN
            decodeFailure(outcome.status, WireText(outcome.body), dec.err)
                @@ [steps |-> <<"dispatch", "read", "decode">>]
        ELSE
            classify(dec.resp, outcome.status)
                @@ [steps |-> <<"dispatch", "read", "decode", "classify">>]

\* doRequestReceive calling the transport a second time after it failed
doRequestReceive_RetriesOnce(c, outcome) ==
    LET dec == Decode(c.jsonDecoder, outcome.body)
    IN  IF outcome.err # Nil THEN
            [resp |-> Nil, err |-> Errorf("failed to execute request", outcome.err),
             steps |-> <<"dispatch", "dispatch">>]
        ELSE IF outcome.readErr # Nil THEN
            [resp |-> Nil, err |-> Errorf("failed to read response body", outcome.readErr),
             steps |-> <<"dispatch", "read">>]
        ELSE IF dec.err # Nil THEN
            decodeFailure(outcome.status, WireText(outcome.body), dec.err)
                @@ [steps |-> <<"dispatch", "read", "decode">>]
        ELSE
            classify(dec.resp, outcome.status)
                @@ [steps |-> <<"dispatch", "read", "decode", "classify">>]

\* doRequestReceive handing the decoder what was read before the read failed
doRequestReceive_DecodesPartialBody(c, outcome) ==
    LET dec == Decode(c.jsonDecoder, outcome.body)
    IN  IF outcome.err # Nil THEN
            [resp |-> Nil, err |-> Errorf("failed to execute request", outcome.err),
             steps |-> <<"dispatch">>]
        ELSE IF dec.err # Nil THEN
            decodeFailure(outcome.status, WireText(outcome.body), dec.err)
                @@ [steps |-> <<"dispatch", "read", "decode">>]
        ELSE
            classify(dec.resp, outcome.status)
                @@ [steps |-> <<"dispatch", "read", "decode", "classify">>]

\* lines 145-215 of doRequest: what the transport gave (an error, or a
\* response whose body may fail to read) to [resp, err, steps]
doRequestReceive(c, outcome) ==
    LET dec == Decode(c.jsonDecoder, outcome.body)
    IN  IF outcome.err # Nil THEN
            [resp |-> Nil, err |-> Errorf("failed to execute request", outcome.err),
             steps |-> <<"dispatch">>]
        ELSE IF outcome.readErr # Nil THEN
            [resp |-> Nil, err |-> Errorf("failed to read response body", outcome.readErr),
             steps |-> <<"dispatch", "read">>]
        ELSE IF dec.err # Nil THEN
            decodeFailure(outcome.status, WireText(outcome.body), dec.err)
                @@ [steps |-> <<"dispatch", "read", "decode">>]
        ELSE
            classify(dec.resp, outcome.status)
                @@ [steps |-> <<"dispatch", "read", "decode", "classify">>]

----------------------------------------------------------------------------
(* The typed wrappers: GetDevices, GetDeviceStatus, SendDeviceCommand.     *)

\* json.Unmarshal(body, &devicesResp): [err, val]
jsonUnmarshalDevices(body) ==
    LET zero == [kind |-> "GetDevicesResponse", DeviceList |-> <<>>,
                 InfraredRemoteList |-> <<>>]
    IN  CASE body = "" ->
                [err |-> NewError("unexpected end of JSON input"), val |-> zero]
          [] body = "[]" ->
                [err |-> NewError("json: cannot unmarshal array into Go value"),
                 val |-> zero]
          [] body = DevicesJSON ->
                [err |-> Nil, val |-> [zero EXCEPT !.DeviceList = <<"D1">>]]
          [] OTHER -> [err |-> Nil, val |-> zero]

NilMap == [kind |-> "map", isNil |-> TRUE, keys |-> {}]
EmptyMap == [kind |-> "map", isNil |-> FALSE, keys |-> {}]

\* json.Unmarshal(body, &m) for a map[string]interface{}: [err, val]
jsonUnmarshalMap(body) ==
    CASE body = "" ->
            [err |-> NewError("unexpected end of JSON input"), val |-> NilMap]
      [] body = "[]" ->
            [err |-> NewError("json: cannot unmarshal array into Go value"),
             val |-> NilMap]
      [] body = "null" -> [err |-> Nil, val |-> NilMap]
      [] body = "{}" -> [err |-> Nil, val |-> EmptyMap]
      [] body = DevicesJSON ->
            [err |-> Nil,
             val |-> [EmptyMap EXCEPT !.keys = {"deviceList", "infraredRemoteList"}]]
      [] body = CommandJSON ->
            [err |-> Nil, val |-> [EmptyMap EXCEPT !.keys = {"commandId"}]]

NilSlice == [kind |-> "slice", isNil |-> TRUE, len |-> 0]
EmptySlice == [kind |-> "slice", isNil |-> FALSE, len |-> 0]

\* json.Unmarshal(body, &s) for a slice of structs: [err, val]
jsonUnmarshalSlice(body) ==
    CASE body = "" ->
            [err |-> NewError("unexpected end of JSON input"), val |-> NilSlice]
      [] body = "null" -> [err |-> Nil, val |-> NilSlice]
      [] body = "[]" -> [err |-> Nil, val |-> EmptySlice]
      [] body \in {"{}", DevicesJSON, CommandJSON} ->
            [err |-> NewError("json: cannot unmarshal object into Go value"),
             val |-> NilSlice]

\* json.Unmarshal(body, &queryResp) and queryResp.URLs: [err, val]
jsonUnmarshalURLs(body) ==
    CASE body = "" ->
            [err |-> NewError("unexpected end of JSON input"), val |-> NilSlice]
      [] body = "[]" ->
            [err |-> NewError("json: cannot unmarshal array into Go value"),
             val |-> NilSlice]
      [] body \in {"null", "{}", DevicesJSON, CommandJSON} ->
            [err |-> Nil, val |-> NilSlice]

\* the tail GetDeviceStatus and SendDeviceCommand share: the body of a
\* successful response to the map they return, [val, err]
statusOrCommandResult(body) ==
    IF isEmptyJSONBody(body) THEN
        LET r == jsonUnmarshalMap(body)
        IN  IF r.err # Nil
            THEN [val |-> Nil, err |-> Errorf("failed to unmarshal response body", r.err)]
            ELSE [val |-> r.val, err |-> Nil]
    ELSE [val |-> EmptyMap, err |-> Nil]

\* SendDeviceCommand passing a nil parameter on as it is
effectiveParameter_KeepsNil(parameter) == parameter

\* SendDeviceCommand: the parameter sent
effectiveParameter(parameter) ==
    IF parameter.t = "nil" THEN [t |-> "string", v |-> <<"default">>] ELSE parameter

\* SendDeviceCommand: the commandType sent
effectiveCommandType(commandType) ==
    IF commandType = <<>> THEN <<"command">> ELSE commandType

\* GetScenes before doRequest
GetScenesPre(op) ==
    [err |-> Nil, method |-> "GET", path |-> <<"/", apiVersion, "/", "scenes">>,
     body |-> Nil]

\* ExecuteScene sending the request whatever the scene ID
ExecuteScenePre_NoCheck(op) ==
    [err |-> Nil, method |-> "POST",
     path |-> <<"/", apiVersion, "/", "scenes", "/">> \o op.sceneID \o <<"/", "execute">>,
     body |-> Nil]

\* ExecuteScene before doRequest
ExecuteScenePre(op) ==
    IF op.sceneID = <<>> THEN
        [err |-> NewError("sceneID cannot be empty"), method |-> "POST", path |-> <<>>,
         body |-> Nil]
    ELSE
        [err |-> Nil, method |-> "POST",
         path |-> <<"/", apiVersion, "/", "scenes", "/">> \o op.sceneID
                  \o <<"/", "execute">>,
         body |-> Nil]

\* SetupWebhook before doRequest
SetupWebhookPre(op) ==
    IF op.webhookURL = <<>> THEN
        [err |-> NewError("webhookURL cannot be empty"), method |-> "POST", path |-> <<>>,
         body |-> Nil]
    ELSE
        [err |-> Nil, method |-> "POST",
         path |-> <<"/", apiVersion, "/", "webhook", "/", "setupWebhook">>,
         body |-> [kind |-> "WebhookSetupRequest", Action |-> <<"setupWebhook">>,
                   URL |-> op.webhookURL, DeviceList |-> <<"ALL">>]]

\* QueryWebhookURL before doRequest
QueryWebhookURLPre(op) ==
    [err |-> Nil, method |-> "POST",
     path |-> <<"/", apiVersion, "/", "webhook", "/", "queryWebhook">>,
     body |-> [kind |-> "WebhookQueryRequest", Action |-> <<"queryUrl">>, URLs |-> <<>>]]

\* QueryWebhookDetails before doRequest
QueryWebhookDetailsPre(op) ==
    IF Len(op.urls) = 0 THEN
        [err |-> NewError("at least one URL must be provided for queryDetails"),
         method |-> "POST", path |-> <<>>, body |-> Nil]
    ELSE
        [err |-> Nil, method |-> "POST",
         path |-> <<"/", apiVersion, "/", "webhook", "/", "queryWebhook">>,
         body |-> [kind |-> "WebhookQueryRequest", Action |-> <<"queryDetails">>,
                   URLs |-> op.urls]]

\* UpdateWebhook before doRequest
UpdateWebhookPre(op) ==
    IF op.webhookURL = <<>> THEN
        [err |-> NewError("webhookURL cannot be empty"), method |-> "POST", path |-> <<>>,
         body |-> Nil]
    ELSE
        [err |-> Nil, method |-> "POST",
         path |-> <<"/", apiVersion, "/", "webhook", "/", "updateWebhook">>,
         body |-> [kind |-> "WebhookUpdateRequest", Action |-> <<"updateWebhook">>,
                   Config |-> [URL |-> op.webhookURL, Enable |-> op.enable]]]

\* DeleteWebhook before doRequest
DeleteWebhookPre(op) ==
    IF op.webhookURL = <<>> THEN
        [err |-> NewError("webhookURL cannot be empty"), method |-> "POST", path |-> <<>>,
         body |-> Nil]
    ELSE
        [err |-> Nil, method |-> "POST",
         path |-> <<"/", apiVersion, "/", "webhook", "/", "deleteWebhook">>,
         body |-> [kind |-> "WebhookDeleteRequest", Action |-> <<"deleteWebhook">>,
                   URL |-> op.webhookURL]]

\* what a wrapper does before doRequest: [err, method, path, body]
OpPre(op) ==
    CASE op.name = "GetDevices" ->
            [err |-> Nil, method |-> "GET",
             path |-> <<"/", apiVersion, "/", "devices">>, body |-> Nil]
      [] op.name = "GetDeviceStatus" ->
            IF op.deviceID = <<>> THEN
                [err |-> NewError("deviceID cannot be empty"), method |-> "GET",
                 path |-> <<>>, body |-> Nil]
            ELSE
                [err |-> Nil, method |-> "GET",
                 path |-> <<"/", apiVersion, "/", "devices", "/">> \o op.deviceID
                          \o <<"/", "status">>,
                 body |-> Nil]
      [] op.name = "SendDeviceCommand" ->
            IF op.deviceID = <<>> THEN
                [err |-> NewError("deviceID cannot be empty"), method |-> "POST",
                 path |-> <<>>, body |-> Nil]
            ELSE IF op.command = <<>> THEN
                [err |-> NewError("command cannot be empty"), method |-> "POST",
                 path |-> <<>>, body |-> Nil]
            ELSE
                [err |-> Nil, method |-> "POST",
                 path |-> <<"/", apiVersion, "/", "devices", "/">> \o op.deviceID
                          \o <<"/", "commands">>,
                 body |-> [kind |-> "CommandRequest", Command |-> op.command,
                           Parameter |-> effectiveParameter(op.parameter),
                           CommandType |-> effectiveCommandType(op.commandType)]]
      [] op.name = "GetScenes" -> GetScenesPre(op)
      [] op.name = "ExecuteScene" -> ExecuteScenePre(op)
      [] op.name = "SetupWebhook" -> SetupWebhookPre(op)
      [] op.name = "QueryWebhookURL" -> QueryWebhookURLPre(op)
      [] op.name = "QueryWebhookDetails" -> QueryWebhookDetailsPre(op)
      [] op.name = "UpdateWebhook" -> UpdateWebhookPre(op)
      [] op.name = "DeleteWebhook" -> DeleteWebhookPre(op)

\* what a wrapper does with doRequest's (resp, err): [val, err]
OpPost(op, resp, err) ==
    IF err # Nil THEN [val |-> Nil, err |-> err]
    ELSE CASE op.name = "GetDevices" ->
                LET r == jsonUnmarshalDevices(resp.Body)
                IN  IF r.err # Nil
                    THEN [val |-> Nil,
                          err |-> Errorf("failed to unmarshal GetDevices response body",
                                         r.err)]
                    ELSE [val |-> r.val, err |-> Nil]
           [] op.name \in {"GetDeviceStatus", "SendDeviceCommand"} ->
                statusOrCommandResult(resp.Body)
           [] op.name = "GetScenes" ->
                LET r == jsonUnmarshalSlice(resp.Body)
                IN  IF r.err # Nil
                    THEN IF resp.Body = "[]"
                         THEN [val |-> EmptySlice, err |-> Nil]
                         ELSE [val |-> Nil,
                               err |-> Errorf("failed to unmarshal GetScenes response body",
                                              r.err)]
                    ELSE [val |-> r.val, err |-> Nil]
           [] op.name = "QueryWebhookDetails" ->
                LET r == jsonUnmarshalSlice(resp.Body)
                IN  IF r.err # Nil
                    THEN [val |-> Nil,
                          err |-> Errorf("failed to unmarshal QueryWebhookDetails response body",
                                         r.err)]
                    ELSE [val |-> r.val, err |-> Nil]
           [] op.name = "QueryWebhookURL" ->
                LET r == jsonUnmarshalURLs(resp.Body)
                IN  IF r.err # Nil
                    THEN [val |-> Nil,
                          err |-> Errorf("failed to unmarshal QueryWebhookURL response body",
                                         r.err)]
                    ELSE [val |-> r.val, err |-> Nil]
           [] op.name \in {"ExecuteScene", "SetupWebhook", "UpdateWebhook",
                           "DeleteWebhook"} ->
                [val |-> Nil, err |-> Nil]

----------------------------------------------------------------------------
(* The transport: http.Client.Do and the read of the response body.        *)

HTTPStatuses == {200, 399, 400, 500}

\* why a round trip fails before any response
TransportFailures ==
    {"connection refused", "context canceled", "context deadline exceeded"}

NoDoc == [doc |-> "garbage", text |-> ""]

\* what Do and io.ReadAll can give for a request that goes out
TransportOutcomes ==
    { [err |-> Errorf("Do", NewError(f)), status |-> 0, body |-> NoDoc, readErr |-> Nil] :
        f \in TransportFailures }
    \cup
    { [err |-> Nil, status |-> 200, body |-> NoDoc,
       readErr |-> NewError("unexpected EOF")] }
    \cup
    [err : {Nil}, status : HTTPStatuses, body : WireDocs, readErr : {Nil}]

\* http.Client.Do(req): the outcomes possible for this request.  A URL with
\* no http scheme or no host fails before anything is sent.
Do(req) ==
    IF req.url.Scheme \notin {"http", "https"} THEN
        { [err |-> Errorf("Do", NewError("unsupported protocol scheme")),
           status |-> 0, body |-> NoDoc, readErr |-> Nil] }
    ELSE IF req.url.Host = <<>> THEN
        { [err |-> Errorf("Do", NewError("http: no Host in request URL")),
           status |-> 0, body |-> NoDoc, readErr |-> Nil] }
    ELSE TransportOutcomes

----------------------------------------------------------------------------
(* State machine.                                                          *)

IdleCall ==
    [pc |-> "idle", op |-> Nil, req |-> Nil, outcome |-> Nil, resp |-> Nil,
     err |-> Nil, val |-> Nil, outErr |-> Nil, steps |-> <<>>, rnd |-> Nil,
     nowT |-> 0, nowN |-> 0]

MaxClock == ClockStart + MaxTicks

\* the credentials and option lists NewClient is given
Tokens == {<<>>, <<"t", "k">>, <<"t">>}
Secrets == {<<>>, <<"s", "k">>}

RECURSIVE SeqsUpTo(_, _)
\* the sequences over S of length at most n
SeqsUpTo(S, n) ==
    IF n = 0 THEN {<<>>}
    ELSE LET shorter == SeqsUpTo(S, n - 1)
         IN  shorter \cup {Append(q, x) : q \in shorter, x \in S}

CtorArgs == [token : Tokens, secret : Secrets, options : SeqsUpTo(ClientOptions, MaxOptions)]

\* NewClient is called
Construct(a) ==
    /\ ctorArgs = Nil
    /\ ctorArgs' = a
    /\ client' = NewClient(a.token, a.secret, a.options).client
    /\ newErr' = NewClient(a.token, a.secret, a.options).err
    /\ UNCHANGED <<clock, call, evals>>

InitNew ==
    /\ client = Nil
    /\ newErr = Nil
    /\ ctorArgs = Nil
    /\ clock = ClockStart
    /\ call = [c \in Callers |-> IdleCall]
    /\ evals = <<>>

NextNew == \E a \in CtorArgs : Construct(a)

\* construction alone, over every credential pair and option list
SpecNew == InitNew /\ [][NextNew]_vars

\* the clients the pipeline is exercised with
PipelineCtorArgs ==
    [token : {<<"t", "k">>, <<"t">>}, secret : {<<"s", "k">>},
     options : { <<>>,
                 <<[opt |-> "WithJSONDecoder", decoder |-> "customNoop"]>>,
                 <<[opt |-> "WithJSONDecoder", decoder |-> "customFail"]>>,
                 <<[opt |-> "WithBaseURL", baseURL |-> <<"api.example.com">>]>> }]

\* the API calls the pipeline is exercised with
PipelineOps ==
    { [name |-> "GetDevices", ctx |-> "background"],
      [name |-> "GetDevices", ctx |-> "nil"],
      [name |-> "GetDeviceStatus", ctx |-> "background", deviceID |-> <<"D1">>],
      [name |-> "GetDeviceStatus", ctx |-> "background", deviceID |-> <<>>],
      [name |-> "GetDeviceStatus", ctx |-> "background", deviceID |-> <<BadEscapeSym>>],
      [name |-> "SendDeviceCommand", ctx |-> "background", deviceID |-> <<"D1">>,
       command |-> <<"turnOn">>, parameter |-> [t |-> "nil", v |-> <<>>],
       commandType |-> <<>>],
      [name |-> "SendDeviceCommand", ctx |-> "background", deviceID |-> <<"D1">>,
       command |-> <<"turnOn">>, parameter |-> [t |-> "chan", v |-> <<>>],
       commandType |-> <<"customize">>] }

\* what rand.Read gives in the pipeline runs
PipelineRandomReads ==
    {r \in RandomReads : r.err # Nil \/ (r.bytes[7] = r.bytes[9] /\ r.bytes[1] = r.bytes[7]
                                         /\ r.bytes[1] # 165)}

\* the wrapper returns before doRequest, or doRequest returns before the
\* request is signed
Fails(c, op) ==
    LET pre == OpPre(op)
        \* the clock and rand are not read on these paths
        sent == doRequestSend(client, op.ctx, pre.method, pre.path, pre.body, 0, 0,
                              ZeroRead)
    IN  \/ /\ pre.err # Nil
           /\ call' = [call EXCEPT ![c] =
                        [IdleCall EXCEPT !.pc = "done", !.op = op, !.outErr = pre.err]]
        \/ /\ pre.err = Nil
           /\ sent.err # Nil
           /\ call' = [call EXCEPT ![c] =
                        [IdleCall EXCEPT !.pc = "done", !.op = op, !.err = sent.err,
                                         !.outErr = OpPost(op, Nil, sent.err).err,
                                         !.steps = sent.steps]]

\* the wrapper calls doRequest, which builds and signs the request: the
\* clock may advance by d between the timestamp and the nonce
Sends(c, op, rnd, d) ==
    LET pre == OpPre(op)
        sent == doRequestSend(client, op.ctx, pre.method, pre.path, pre.body,
                              clock, clock + d, rnd)
    IN  /\ pre.err = Nil
        /\ clock + d <= MaxClock
        /\ sent.err = Nil
        /\ clock' = clock + d
        /\ call' = [call EXCEPT ![c] =
                     [IdleCall EXCEPT !.pc = "dispatching", !.op = op, !.req = sent.req,
                                      !.steps = sent.steps, !.rnd = rnd,
                                      !.nowT = clock, !.nowN = clock + d]]

\* caller c starts an API call
Begin(c, op) ==
    /\ client # Nil
    /\ call[c].pc = "idle"
    /\ \/ Fails(c, op) /\ UNCHANGED clock
       \/ \E rnd \in PipelineRandomReads, d \in {0, 1} : Sends(c, op, rnd, d)
    /\ UNCHANGED <<client, newErr, ctorArgs, evals>>

\* a variant of ReceiveFrom: resolving the path leaves the request's URL in
\* the client's base URL
ReceiveFrom_OverwritesBaseURL(c, outcomes) ==
    /\ call[c].pc = "dispatching"
    /\ \E outcome \in outcomes :
         LET r == doRequestReceive(client, outcome)
             out == OpPost(call[c].op, r.resp, r.err)
         IN  call' = [call EXCEPT ![c] =
                       [@ EXCEPT !.pc = "done", !.outcome = outcome, !.resp = r.resp,
                                 !.err = r.err, !.val = out.val, !.outErr = out.err,
                                 !.steps = @ \o r.steps]]
    /\ client' = [client EXCEPT !.baseURL = call[c].req.url]
    /\ UNCHANGED <<newErr, ctorArgs, clock, evals>>

\* the transport call of caller c returns one of outcomes and doRequest and
\* the wrapper run to their end
ReceiveFrom(c, outcomes) ==
    /\ call[c].pc = "dispatching"
    /\ \E outcome \in outcomes :
         LET r == doRequestReceive(client, outcome)
             out == OpPost(call[c].op, r.resp, r.err)
         IN  call' = [call EXCEPT ![c] =
                       [@ EXCEPT !.pc = "done", !.outcome = outcome, !.resp = r.resp,
                                 !.err = r.err, !.val = out.val, !.outErr = out.err,
                                 !.steps = @ \o r.steps]]
    /\ UNCHANGED <<client, newErr, ctorArgs, clock, evals>>

\* the transport call of caller c returns
Receive(c) == ReceiveFrom(c, Do(call[c].req))

\* the caller takes the result; the call's locals are gone
Return(c) ==
    /\ call[c].pc = "done"
    /\ call' = [call EXCEPT ![c] = IdleCall]
    /\ UNCHANGED <<client, newErr, ctorArgs, clock, evals>>

\* time passes
Tick ==
    /\ clock < MaxClock
    /\ clock' = clock + 1
    /\ UNCHANGED <<client, newErr, ctorArgs, call, evals>>

Init ==
    /\ \E a \in PipelineCtorArgs :
         /\ ctorArgs = a
         /\ client = NewClient(a.token, a.secret, a.options).client
         /\ newErr = NewClient(a.token, a.secret, a.options).err
    /\ clock = ClockStart
    /\ call = [c \in Callers |-> IdleCall]
    /\ evals = <<>>

Next ==
    \/ \E op \in PipelineOps : Begin(1, op)
    \/ Receive(1)
    \/ Return(1)
    \/ Tick

\* one caller at a time through the pipeline
Spec == Init /\ [][Next]_vars

----------------------------------------------------------------------------
(* Callers sharing one client: every caller of Callers runs its calls,     *)
(* the steps of different callers interleaved in every order.              *)

\* the API calls the callers make at the same time
ConcOps ==
    { [name |-> "GetDevices", ctx |-> "background"],
      [name |-> "GetDeviceStatus", ctx |-> "background", deviceID |-> <<"D1">>] }

\* what the transport gives while the callers share it
ConcOutcomes ==
    { [err |-> Errorf("Do", NewError("connection refused")), status |-> 0,
       body |-> NoDoc, readErr |-> Nil],
      [err |-> Nil, status |-> 200,
       body |-> [doc |-> "object", statusCode |-> [t |-> "num", v |-> 100],
                 message |-> Absent, body |-> [t |-> "raw", v |-> DevicesJSON]],
       readErr |-> Nil] }

\* Do(req) while the callers share the transport: a request that cannot go
\* out fails as in Do, one that goes out gets one of ConcOutcomes
ConcDo(req) ==
    IF req.url.Scheme \notin {"http", "https"} \/ req.url.Host = <<>>
    THEN Do(req)
    ELSE ConcOutcomes

\* caller c starts an API call that gets as far as the signed request
Dispatch(c, op) ==
    /\ client # Nil
    /\ call[c].pc = "idle"
    /\ Sends(c, op, ZeroRead, 0)
    /\ UNCHANGED <<client, newErr, ctorArgs, evals>>

NextConc ==
    \/ \E c \in Callers, op \in ConcOps : Dispatch(c, op)
    \/ \E c \in Callers : ReceiveFrom(c, ConcDo(call[c].req))
    \/ \E c \in Callers : Return(c)
    \/ Tick

SpecConc == Init /\ [][NextConc]_vars

----------------------------------------------------------------------------

(* The public methods under every kind of argument: one caller, the        *)
(* identifiers empty, plain, and holding "/", "..", "?" and "#".           *)

\* device and scene identifiers a caller may pass
ArgIDs ==
    { <<>>, <<"D1">>, <<"a", "/", "b">>, <<"..", "/", "..", "/", "x">>,
      <<"x", "?", "q">>, <<"x", "#", "f">> }

\* webhook URLs a caller may pass, each one symbol of the JSON text
ArgWebhookURLs == {<<>>, <<"https://hook.example/a">>}

ArgOps ==
    [name : {"GetDevices", "GetScenes", "QueryWebhookURL"}, ctx : {"background"}]
    \cup [name : {"GetDeviceStatus"}, ctx : {"background"}, deviceID : ArgIDs]
    \cup [name : {"ExecuteScene"}, ctx : {"background"}, sceneID : ArgIDs]
    \cup [name : {"SendDeviceCommand"}, ctx : {"background"},
          deviceID : {<<>>, <<"D1">>, <<BadEscapeSym>>}, command : {<<>>, <<"turnOn">>},
          parameter : Parameters, commandType : {<<>>, <<"customize">>}]
    \cup [name : {"SetupWebhook", "DeleteWebhook"}, ctx : {"background"},
          webhookURL : ArgWebhookURLs]
    \cup [name : {"UpdateWebhook"}, ctx : {"background"}, webhookURL : ArgWebhookURLs,
          enable : BOOLEAN]
    \cup [name : {"QueryWebhookDetails"}, ctx : {"background"},
          urls : {<<>>, <<"https://hook.example/a">>,
                  <<"https://hook.example/a", "https://hook.example/b">>}]

\* what the transport gives in these runs
ArgOutcomes ==
    ConcOutcomes \cup
    { [err |-> Nil, status |-> 200,
       body |-> [doc |-> "object", statusCode |-> [t |-> "num", v |-> 100],
                 message |-> Absent, body |-> b],
       readErr |-> Nil] : b \in {Absent, [t |-> "raw", v |-> "[]"]} }
    \cup
    { [err |-> Nil, status |-> 200, body |-> NoDoc,
       readErr |-> NewError("unexpected EOF")] }

\* Do(req) in these runs: as ConcDo, over ArgOutcomes
ArgDo(req) ==
    IF req.url.Scheme \notin {"http", "https"} \/ req.url.Host = <<>>
    THEN Do(req)
    ELSE ArgOutcomes

\* caller c calls a public method: it returns before the request is signed,
\* or gets as far as the transport call
Call(c, op) ==
    \/ /\ client # Nil
       /\ call[c].pc = "idle"
       /\ Fails(c, op)
       /\ UNCHANGED <<client, newErr, ctorArgs, clock, evals>>
    \/ Dispatch(c, op)

NextArgs ==
    \/ \E op \in ArgOps : Call(1, op)
    \/ ReceiveFrom(1, ArgDo(call[1].req))
    \/ Return(1)
    \/ Tick

SpecArgs == Init /\ [][NextArgs]_vars

----------------------------------------------------------------------------

(* Nonce generation on its own: getUUIDv7String under every random read    *)
(* and clock value of the model.                                           *)

\* most nonces kept in evals
MaxNonces == 2

\* the bytes 6 and 8 rand.Read may leave: the extremes of the bits the
\* version and variant masks keep and overwrite
NonceByteValues == {0, 15, 16, 63, 64, 127, 128, 165, 192, 255}

NonceRandomReads ==
    { [err |-> Nil,
       bytes |-> [i \in 1 .. 16 |-> IF i = 7 THEN b6 ELSE IF i = 9 THEN b8 ELSE fill]] :
         b6 \in NonceByteValues, b8 \in NonceByteValues, fill \in RandByteValues }
    \cup
    { [err |-> NewError("crypto/rand: read failed"), bytes |-> [i \in 1 .. 16 |-> 0]] }

\* random reads that differ in the bits getUUIDv7 overwrites, in the bits it
\* keeps, or not at all
RepeatableRandomReads ==
    { [err |-> Nil,
       bytes |-> [i \in 1 .. 16 |-> IF i = 7 THEN b6 ELSE IF i = 9 THEN b8 ELSE fill]] :
         b6 \in {5, 165}, b8 \in {37, 165}, fill \in {0, 255} }
    \cup
    { [err |-> NewError("crypto/rand: read failed"), bytes |-> [i \in 1 .. 16 |-> 0]] }

\* a nonce is generated while the clock reads clock and rand.Read gives rnd;
\* evals keeps at most cap generations
GenerateNonce(rnd, cap) ==
    /\ Len(evals) < cap
    /\ evals' = Append(evals,
                  [fn |-> "generateNonce", rnd |-> rnd, now |-> clock,
                   err |-> getUUIDv7String(rnd, clock).err,
                   value |-> getUUIDv7(rnd, clock).value,
                   uuid |-> getUUIDv7String(rnd, clock).uuid,
                   nonce |-> generateNonce(rnd, clock)])
    /\ UNCHANGED <<client, newErr, ctorArgs, clock, call>>

\* the caller drops the results it holds
Forget ==
    /\ evals # <<>>
    /\ evals' = <<>>
    /\ UNCHANGED <<client, newErr, ctorArgs, clock, call>>

NextNonce ==
    \/ \E rnd \in NonceRandomReads : GenerateNonce(rnd, 1)
    \/ Forget
    \/ Tick

\* one nonce at a time, over the wide random reads
SpecNonce == InitNew /\ [][NextNonce]_vars

NextNonces ==
    \/ \E rnd \in RepeatableRandomReads : GenerateNonce(rnd, MaxNonces)
    \/ Forget
    \/ Tick

\* several nonces in a row, the clock advancing or not between them
SpecNonces == InitNew /\ [][NextNonces]_vars

----------------------------------------------------------------------------

(* The text helpers on their own: APIError.Error() and isEmptyJSONBody     *)
(* over the errors and bodies of the model.                                *)

\* most pieces a body text is put together from
MaxPieces == 3

\* what a body is put together from: the pieces of "{}", "null", "[]",
\* "{"k":1}" and white space
BodyPieces == {"{", "}", "null", "[]", " ", "\"k\":1"}

BodyPieceSeqs == SeqsUpTo(BodyPieces, MaxPieces)

\* the APIError values Error() is applied to
APIErrors ==
    { APIError(statusCode, message, ConcatText(pieces), err) :
        statusCode \in {0, 100, 190, 500},
        message \in {"", "device offline"},
        pieces \in BodyPieceSeqs,
        err \in {Nil, NewError("network error"),
                 Errorf("request failed", NewError("timeout"))} }

\* e.Error() is called
RenderError(e) ==
    /\ evals = <<>>
    /\ evals' = <<[fn |-> "Error", e |-> e, out |-> Error(e)]>>
    /\ UNCHANGED <<client, newErr, ctorArgs, clock, call>>

\* isEmptyJSONBody is called on the body made of pieces
CheckEmpty(pieces) ==
    /\ evals = <<>>
    /\ evals' = <<[fn |-> "isEmptyJSONBody", pieces |-> pieces,
                   body |-> ConcatText(pieces),
                   out |-> isEmptyJSONBody(ConcatText(pieces))]>>
    /\ UNCHANGED <<client, newErr, ctorArgs, clock, call>>

NextText ==
    \/ evals = <<>> /\ \E e \in APIErrors : RenderError(e)
    \/ evals = <<>> /\ \E pieces \in BodyPieceSeqs : CheckEmpty(pieces)
    \/ Forget

SpecText == InitNew /\ [][NextText]_vars

----------------------------------------------------------------------------

(* Properties.                                                             *)

\* caller c's call is over and its transport call returned outcome
Answered(c) == call[c].pc = "done" /\ call[c].outcome # Nil

\* the transport gave a response and its body was read in full
GotResponse(c) ==
    Answered(c) /\ call[c].outcome.err = Nil /\ call[c].outcome.readErr = Nil

\* what the client's decoder makes of the body of c's response
Decoded(c) == Decode(client.jsonDecoder, call[c].outcome.body)

\* the response's body decodes as an envelope
GotEnvelope(c) == GotResponse(c) /\ Decoded(c).err = Nil

ErrorCodesOfTheAPI == {151, 152, 160, 161, 171, 190}

\* C1: whenever the HTTP status is >= 400 and the body decodes as an
\* envelope, doRequest returns an APIError whose StatusCode is the HTTP
\* status, whatever the envelope's statusCode is.
C1_TransportStatusWins ==
    \A c \in Callers :
        (GotEnvelope(c) /\ call[c].outcome.status >= 400) =>
            /\ IsAPIError(call[c].err)
            /\ call[c].err.StatusCode = call[c].outcome.status

\* C2: with an HTTP status < 400 and an envelope whose statusCode is one of
\* 151, 152, 160, 161, 171, 190, doRequest returns no Response and an
\* APIError carrying the envelope's statusCode, message and body, with a
\* cause.
C2_KnownCodeIsAPIError ==
    \A c \in Callers :
        (GotEnvelope(c) /\ call[c].outcome.status < 400
            /\ Decoded(c).resp.StatusCode \in ErrorCodesOfTheAPI) =>
            /\ call[c].resp = Nil
            /\ IsAPIError(call[c].err)
            /\ call[c].err.StatusCode = Decoded(c).resp.StatusCode
            /\ call[c].err.Message = Decoded(c).resp.Message
            /\ call[c].err.Body = Decoded(c).resp.Body
            /\ call[c].err.Err # Nil

C2_Witness ==
    \E c \in Callers :
        /\ GotEnvelope(c)
        /\ call[c].outcome.status = 200
        /\ Decoded(c).resp.StatusCode = 161
        /\ Decoded(c).resp.Message = "device offline"
        /\ IsAPIError(call[c].err)

\* doRequest hands back exactly the decoded envelope of c's response
ReturnsEnvelope(c) ==
    /\ call[c].err = Nil
    /\ call[c].resp # Nil
    /\ call[c].resp.StatusCode = Decoded(c).resp.StatusCode
    /\ call[c].resp.Message = Decoded(c).resp.Message
    /\ call[c].resp.Body = Decoded(c).resp.Body

\* c's response: HTTP status < 400 and an envelope with statusCode 100
SuccessEnvelope(c) ==
    /\ GotEnvelope(c)
    /\ call[c].outcome.status < 400
    /\ Decoded(c).resp.StatusCode = 100

C4_UnknownCodePassesThrough ==
    \A c \in Callers :
        (GotEnvelope(c) /\ call[c].outcome.status < 400
            /\ Decoded(c).resp.StatusCode \notin (ErrorCodesOfTheAPI \cup {100})) =>
            ReturnsEnvelope(c)

C4_Witness ==
    \E c \in Callers :
        /\ GotEnvelope(c)
        /\ call[c].outcome.status < 400
        /\ Decoded(c).resp.StatusCode = 101
        /\ call[c].resp # Nil
        /\ call[c].resp.StatusCode = 101

\* C5: when the transport call fails or is cancelled before a response is
\* obtained, doRequest returns no Response and an error that is no APIError
\* and has no status code, with the transport's error in its cause chain.
C5_TransportErrorIsPlain ==
    \A c \in Callers :
        (Answered(c) /\ call[c].outcome.err # Nil) =>
            /\ call[c].resp = Nil
            /\ call[c].err # Nil
            /\ ~IsAPIError(call[c].err)
            /\ "StatusCode" \notin DOMAIN call[c].err
            /\ InChain(call[c].err, call[c].outcome.err)
            /\ call[c].outErr = call[c].err

C5_Witness ==
    \E c \in Callers :
        /\ Answered(c)
        /\ call[c].outcome.err # Nil
        /\ InChain(call[c].outcome.err, NewError("context canceled"))
        /\ call[c].err # Nil

\* C6: when the body does not decode as an envelope, doRequest returns no
\* Response; with an HTTP status >= 400 the error is an APIError with that
\* status, the raw bytes as Body and the decode error as Err; with a status
\* < 400 the error is no APIError.
C6_UndecodableBody ==
    \A c \in Callers :
        (GotResponse(c) /\ Decoded(c).err # Nil) =>
            /\ call[c].resp = Nil
            /\ call[c].err # Nil
            /\ call[c].outcome.status >= 400 =>
                  /\ IsAPIError(call[c].err)
                  /\ call[c].err.StatusCode = call[c].outcome.status
                  /\ call[c].err.Body = WireText(call[c].outcome.body)
                  /\ call[c].err.Err = Decoded(c).err
            /\ call[c].outcome.status < 400 => ~IsAPIError(call[c].err)

C6_Witness ==
    \E c \in Callers :
        /\ GotResponse(c)
        /\ Decoded(c).err # Nil
        /\ call[c].outcome.status = 400
        /\ call[c].outcome.body.doc = "garbage"
        /\ IsAPIError(call[c].err)
        /\ call[c].err.Body = "<html>"

\* the five headers of a signed request
SignedHeaderNames == {"Authorization", "t", "nonce", "sign", "Content-Type"}

\* C7: setAuthorizationHeader sets exactly the five headers Authorization
\* (the token), t, nonce, sign and Content-Type, and sign is
\* base64(HMAC-SHA256(secret, token || t || nonce)) over the t and nonce of
\* the same request.
C7_SignedHeaders ==
    \A c \in Callers :
        call[c].req # Nil =>
            LET h == call[c].req.header
            IN  /\ DOMAIN h = {CanonicalKey(n) : n \in SignedHeaderNames}
                /\ Cardinality(DOMAIN h) = 5
                /\ \A k \in DOMAIN h : Len(h[k]) = 1
                /\ HeaderGet(h, "Authorization") = client.token
                /\ HeaderGet(h, "Content-Type") = <<"application/json; charset=utf-8">>
                /\ HeaderGet(h, "sign") =
                      Base64Std(HmacSHA256(client.secret,
                                           client.token \o HeaderGet(h, "t")
                                               \o HeaderGet(h, "nonce")))

C7_Witness ==
    \E c \in Callers :
        /\ call[c].pc = "dispatching"
        /\ call[c].req # Nil
        /\ call[c].rnd.err = Nil
        /\ Len(HeaderGet(call[c].req.header, "nonce")) = 36
        /\ HeaderGet(call[c].req.header, "t") = <<"2", "5", "6">>
        /\ client.token = <<"t">>

\* C8: if the random source fails during nonce generation, the request is
\* not signed and dispatched, and the calling operation returns an error.
C8_RandomFailurePropagates ==
    \A c \in Callers :
        (call[c].rnd # Nil /\ call[c].rnd.err # Nil) =>
            /\ call[c].pc # "dispatching"
            /\ call[c].outcome = Nil
            /\ call[c].pc = "done" => call[c].outErr # Nil

\* C9: with an HTTP status >= 400 and an envelope whose message is empty,
\* the APIError returned has a non-empty Message, whatever the envelope's
\* statusCode is.
C9_DefaultMessage ==
    \A c \in Callers :
        (GotEnvelope(c) /\ call[c].outcome.status >= 400
            /\ Decoded(c).resp.Message = "") =>
            /\ IsAPIError(call[c].err)
            /\ call[c].err.Message # ""

\* an option NewClient cannot apply
OptionFails(o) ==
    \/ o.opt = "WithJSONEncoder" /\ o.encoder = "nil"
    \/ o.opt = "WithJSONDecoder" /\ o.decoder = "nil"
    \/ o.opt = "WithBaseURL" /\ ParseURL(o.baseURL).err # Nil

\* C10: NewClient returns an error and no client whenever the token or the
\* secret is empty, whatever the options; with both non-empty and no failing
\* option it returns a client holding that token and secret.
C10_NewClientCredentials ==
    ctorArgs # Nil =>
        /\ (ctorArgs.token = <<>> \/ ctorArgs.secret = <<>>) =>
              (newErr # Nil /\ client = Nil)
        /\ (ctorArgs.token # <<>> /\ ctorArgs.secret # <<>>
            /\ \A i \in 1 .. Len(ctorArgs.options) : ~OptionFails(ctorArgs.options[i])) =>
              /\ newErr = Nil
              /\ client # Nil
              /\ client.token = ctorArgs.token
              /\ client.secret = ctorArgs.secret

C10_Witness ==
    /\ ctorArgs # Nil
    /\ ctorArgs.token # <<>>
    /\ ctorArgs.secret = <<>>
    /\ Len(ctorArgs.options) = 2
    /\ \A i \in 1 .. Len(ctorArgs.options) : ~OptionFails(ctorArgs.options[i])
    /\ newErr # Nil
    /\ client = Nil

\* a base URL requests can be sent to: an http or https scheme and a host
UsableBaseURL(u) ==
    /\ u.Scheme \in {"http", "https"}
    /\ u.Host # <<>>

\* an override the construction is required to refuse
InvalidOverride(o) ==
    \/ o.opt = "WithJSONEncoder" /\ o.encoder = "nil"
    \/ o.opt = "WithJSONDecoder" /\ o.decoder = "nil"
    \/ o.opt = "WithBaseURL"
       /\ \/ ParseURL(o.baseURL).err # Nil
          \/ ~UsableBaseURL(ParseURL(o.baseURL).url)

\* C11: NewClient returns an error when an option carries a nil encoder, a
\* nil decoder or a base URL that is not a usable absolute URL, and every
\* client it returns has an encoder, a decoder and an absolute base URL.
C11_OverridesFailAtConstruction ==
    ctorArgs # Nil =>
        /\ (\E i \in 1 .. Len(ctorArgs.options) : InvalidOverride(ctorArgs.options[i]))
              => (newErr # Nil /\ client = Nil)
        /\ client # Nil =>
              /\ client.jsonEncoder # "nil"
              /\ client.jsonDecoder # "nil"
              /\ UsableBaseURL(client.baseURL)

\* the nonces generated so far
NonceEvals == {i \in DOMAIN evals : evals[i].fn = "generateNonce"}

\* the characters of a lowercase hexadecimal number
HexChars == {HexDigits[k] : k \in DOMAIN HexDigits}

\* C12: every nonce generated without error is 36 characters long, five
\* groups of 8, 4, 4, 4 and 12 lowercase hexadecimal digits joined by
\* hyphens, with version nibble 7 and variant bits 10, whatever rand.Read
\* and the clock give.
C12_NonceFormat ==
    \A i \in NonceEvals :
        evals[i].err = Nil =>
            LET u == evals[i].uuid
            IN  /\ evals[i].nonce = u
                /\ Len(u) = 36
                /\ \A k \in 1 .. 36 :
                      IF k \in {9, 14, 19, 24} THEN u[k] = "-" ELSE u[k] \in HexChars
                /\ u[15] = "7"
                /\ u[20] \in {"8", "9", "a", "b"}
                /\ evals[i].value[7] \div 16 = 7
                /\ evals[i].value[9] \div 64 = 2

C12_Witness ==
    \E i \in NonceEvals :
        /\ evals[i].err = Nil
        /\ evals[i].rnd.bytes[7] = 255
        /\ evals[i].rnd.bytes[9] = 63
        /\ evals[i].now = ClockStart + 1
        /\ evals[i].uuid[15] = "7"

\* the bits of byte k (counted from 1) of the random read that getUUIDv7
\* keeps in the value
KeptBits(k, b) ==
    IF k = 7 THEN b % 16 ELSE IF k = 9 THEN b % 64 ELSE b

\* two random reads that leave the same bits in the value
SameKeptBits(r1, r2) ==
    \A k \in 7 .. 16 : KeptBits(k, r1.bytes[k]) = KeptBits(k, r2.bytes[k])

\* C13 as stated: any two nonce generations return distinct values.
C13_Original ==
    \A i, j \in NonceEvals : i < j => evals[i].nonce # evals[j].nonce

\* C13: two nonce generations return the same value exactly when both fail
\* (each returns the empty string), or both succeed in the same millisecond
\* with random reads that agree on every bit getUUIDv7 keeps; nothing
\* compares a nonce with an earlier one.
C13_NonceCollisions ==
    \A i, j \in NonceEvals :
        i < j =>
            ( evals[i].nonce = evals[j].nonce
              <=> \/ evals[i].err # Nil /\ evals[j].err # Nil
                  \/ /\ evals[i].err = Nil
                     /\ evals[j].err = Nil
                     /\ evals[i].now = evals[j].now
                     /\ SameKeptBits(evals[i].rnd, evals[j].rnd) )

C13_Witness ==
    \E i, j \in NonceEvals :
        /\ i < j
        /\ evals[i].err = Nil
        /\ evals[j].err = Nil
        /\ evals[i].rnd # evals[j].rnd
        /\ evals[i].now = evals[j].now
        /\ evals[i].nonce = evals[j].nonce

\* the calls of Error() made so far
ErrorEvals == {i \in DOMAIN evals : evals[i].fn = "Error"}

\* the last n pieces of a text
Suffix(s, n) == SubSeq(s, Len(s) - n + 1, Len(s))

\* the piece that follows the first piece x of s, or Nil
PieceAfter(s, x) ==
    IF Index(s, x) = 0 \/ Index(s, x) = Len(s) THEN Nil
    ELSE [kind |-> "piece", text |-> s[Index(s, x) + 1]]

EmptyEvals == {i \in DOMAIN evals : evals[i].fn = "isEmptyJSONBody"}

\* C15: isEmptyJSONBody is true exactly for the zero-length body, "{}" and
\* "null", and false for every other body: "[]", a non-empty object, white
\* space and text that is not JSON.
C15_EmptyBodyExactly ==
    \A i \in EmptyEvals :
        evals[i].out <=> evals[i].pieces \in {<<>>, <<"{", "}">>, <<"null">>}

C15_Witness ==
    \E i \in EmptyEvals :
        /\ evals[i].pieces = <<"{", " ", "}">>
        /\ evals[i].body = "{ }"
        /\ ~evals[i].out

\* caller c's GetDeviceStatus or SendDeviceCommand got a Response from
\* doRequest and has returned
StatusOrCommandSucceeded(c) ==
    /\ call[c].pc = "done"
    /\ call[c].op.name \in {"GetDeviceStatus", "SendDeviceCommand"}
    /\ call[c].resp # Nil
    /\ call[c].err = Nil

\* C16: when the response succeeds with a non-empty JSON object as its
\* body, GetDeviceStatus and SendDeviceCommand return a map holding the
\* fields of that object, not an empty map.
C16_BodyFieldsReturned ==
    \A c \in Callers :
        StatusOrCommandSucceeded(c) =>
            /\ call[c].resp.Body = CommandJSON =>
                  /\ call[c].outErr = Nil
                  /\ call[c].val # Nil
                  /\ call[c].val.keys = {"commandId"}
            /\ call[c].resp.Body = DevicesJSON =>
                  /\ call[c].outErr = Nil
                  /\ call[c].val # Nil
                  /\ call[c].val.keys = {"deviceList", "infraredRemoteList"}

\* C17: when the response succeeds with a body that is zero-length, "{}" or
\* "null", GetDeviceStatus and SendDeviceCommand return a nil error and an
\* empty map that is not nil.
C17_EmptyBodyGivesEmptyMap ==
    \A c \in Callers :
        (StatusOrCommandSucceeded(c) /\ call[c].resp.Body \in {"", "{}", "null"}) =>
            /\ call[c].outErr = Nil
            /\ call[c].val # Nil
            /\ ~call[c].val.isNil
            /\ call[c].val.keys = {}

\* caller c's call reached doRequest with a path url.Parse refuses
PathUnparsable(c) ==
    /\ call[c].pc # "idle"
    /\ OpPre(call[c].op).err = Nil
    /\ Contains(OpPre(call[c].op).path, BadEscapeSym)

\* caller c's call reached doRequest with a body the encoder refuses
BodyUnencodable(c) ==
    /\ call[c].pc # "idle"
    /\ OpPre(call[c].op).err = Nil
    /\ ~Contains(OpPre(call[c].op).path, BadEscapeSym)
    /\ OpPre(call[c].op).body # Nil
    /\ \/ client.jsonEncoder = "customFail"
       \/ client.jsonEncoder = "json.Marshal" /\ OpPre(call[c].op).body.Parameter.t = "chan"

\* C18: when the path cannot be parsed or the encoder returns an error,
\* doRequest returns that error, wrapped and not as an APIError, and the
\* transport is never called.
C18_FailsBeforeTransport ==
    \A c \in Callers :
        /\ (PathUnparsable(c) \/ BodyUnencodable(c)) =>
              /\ call[c].pc = "done"
              /\ call[c].req = Nil
              /\ call[c].outcome = Nil
              /\ ~Contains(call[c].steps, "dispatch")
              /\ call[c].resp = Nil
              /\ call[c].err # Nil
              /\ ~IsAPIError(call[c].err)
        /\ PathUnparsable(c) =>
              InChain(call[c].err, ParseURL(OpPre(call[c].op).path).err)
        /\ BodyUnencodable(c) =>
              InChain(call[c].err, Encode(client.jsonEncoder, OpPre(call[c].op).body).err)

C18_Witness ==
    \E c \in Callers :
        /\ BodyUnencodable(c)
        /\ call[c].pc = "done"
        /\ call[c].steps = <<"resolve", "encode">>
        /\ call[c].err.msg = "failed to marshal request body"

\* how many of the steps of caller c's call are transport calls
Dispatches(c) ==
    Cardinality({i \in DOMAIN call[c].steps : call[c].steps[i] = "dispatch"})

\* C19: one doRequest call calls the transport at most once: a call that
\* failed in the transport ends with that failure, and nothing is sent a
\* second time.
C19_AtMostOneDispatch ==
    \A c \in Callers :
        /\ Dispatches(c) <= 1
        /\ call[c].outcome # Nil => Dispatches(c) = 1
        /\ (call[c].outcome # Nil /\ call[c].outcome.err # Nil) =>
              /\ call[c].pc = "done"
              /\ call[c].steps[Len(call[c].steps)] = "dispatch"
              /\ InChain(call[c].err, call[c].outcome.err)

C19_Witness ==
    \E c \in Callers :
        /\ call[c].pc = "done"
        /\ call[c].outcome # Nil
        /\ call[c].outcome.err # Nil
        /\ call[c].req.url.Host # <<>>
        /\ Dispatches(c) = 1

\* the request caller c's call would have built had the client's secret
\* been another one, everything else the same
RequestUnderSecret(c, secret) ==
    doRequestSend([client EXCEPT !.secret = secret], call[c].op.ctx,
                  OpPre(call[c].op).method, OpPre(call[c].op).path,
                  OpPre(call[c].op).body, call[c].nowT, call[c].nowN, call[c].rnd).req

\* C20: no header value, URL part or body of a request handed to the
\* transport is the client's secret; the secret enters the request through
\* the sign header alone, so with another secret the request is the same
\* but for that header.
C20_SecretNotTransmitted ==
    \A c \in Callers :
        call[c].req # Nil =>
            LET r == call[c].req
                alt == RequestUnderSecret(c, <<"o", "t", "h", "e", "r">>)
            IN  /\ \A k \in DOMAIN r.header :
                      \A i \in DOMAIN r.header[k] : r.header[k][i] # client.secret
                /\ r.body # client.secret
                /\ r.url.Host # client.secret
                /\ r.url.Path # client.secret
                /\ r.url.RawQuery # client.secret
                /\ r.url.Fragment # client.secret
                /\ r.url.Opaque # client.secret
                /\ alt.method = r.method
                /\ alt.url = r.url
                /\ alt.body = r.body
                /\ DOMAIN alt.header = DOMAIN r.header
                /\ \A k \in DOMAIN r.header \ {"Sign"} : alt.header[k] = r.header[k]
                /\ alt.header["Sign"] # r.header["Sign"]

C20_Witness ==
    \E c \in Callers :
        /\ call[c].pc = "dispatching"
        /\ call[c].req.method = "POST"
        /\ call[c].req.body # <<>>
        /\ client.secret = <<"s", "k">>
        /\ HeaderGet(call[c].req.header, "sign")
              = Base64Std(HmacSHA256(<<"s", "k">>,
                    client.token \o HeaderGet(call[c].req.header, "t")
                                 \o HeaderGet(call[c].req.header, "nonce")))

\* C21: whatever the interleaving of the callers sharing the client, no
\* step changes the client's configuration (token, secret, base URL,
\* transport handle, encoder, decoder), and a step changes the locals of at
\* most one call.
C21_ClientNeverModified ==
    [][ /\ client' = client
        /\ Cardinality({c \in Callers : call'[c] # call[c]}) <= 1 ]_vars

\* C21: the configuration in use is the one NewClient returned.
C21_Witness ==
    /\ client = NewClient(ctorArgs.token, ctorArgs.secret, ctorArgs.options).client
    /\ call[1].pc = "done"
    /\ call[2].pc = "dispatching"
    /\ call[1].req.header # call[2].req.header

\* the call's method takes a required identifier and the caller left it
\* empty
RequiredArgEmpty(op) ==
    \/ op.name \in {"GetDeviceStatus", "SendDeviceCommand"} /\ op.deviceID = <<>>
    \/ op.name = "SendDeviceCommand" /\ op.command = <<>>
    \/ op.name = "ExecuteScene" /\ op.sceneID = <<>>
    \/ op.name \in {"SetupWebhook", "UpdateWebhook", "DeleteWebhook"} /\ op.webhookURL = <<>>
    \/ op.name = "QueryWebhookDetails" /\ op.urls = <<>>

\* C22: a public method given an empty required identifier (deviceID,
\* command, sceneID, webhookURL, urls) returns an error and no value, and
\* neither doRequest nor the transport runs.
C22_EmptyArgumentRefused ==
    \A c \in Callers :
        (call[c].pc # "idle" /\ RequiredArgEmpty(call[c].op)) =>
            /\ call[c].pc = "done"
            /\ call[c].outErr # Nil
            /\ ~IsAPIError(call[c].outErr)
            /\ call[c].val = Nil
            /\ call[c].steps = <<>>
            /\ call[c].req = Nil
            /\ call[c].outcome = Nil

C22_Witness ==
    \E c \in Callers :
        /\ call[c].pc = "done"
        /\ call[c].op.name = "ExecuteScene"
        /\ call[c].op.sceneID = <<>>
        /\ call[c].outErr = NewError("sceneID cannot be empty")

\* the steps of doRequest in the order the claim gives, for a call with or
\* without a request body
StepOrder(withBody) ==
    <<"resolve">> \o (IF withBody THEN <<"encode">> ELSE <<>>)
    \o <<"build", "sign", "dispatch", "read", "decode", "classify">>

\* how many of the steps of caller c's call are step
StepCount(c, step) ==
    Cardinality({i \in DOMAIN call[c].steps : call[c].steps[i] = step})

\* C23: the steps of one doRequest call run in the order resolve, encode,
\* build, sign, dispatch, read, decode, classify; a call that reaches the
\* transport has signed exactly once, right before the transport call, and
\* a call that fails before the request is built has not signed.
C23_StepOrder ==
    \A c \in Callers :
        (call[c].pc # "idle" /\ call[c].steps # <<>>) =>
            LET steps == call[c].steps
                order == StepOrder(OpPre(call[c].op).body # Nil)
            IN  /\ Len(steps) <= Len(order)
                /\ steps = SubSeq(order, 1, Len(steps))
                /\ StepCount(c, "sign") <= 1
                /\ Contains(steps, "dispatch") =>
                      /\ StepCount(c, "sign") = 1
                      /\ Index(steps, "sign") = Index(steps, "dispatch") - 1
                /\ call[c].pc = "dispatching" => steps[Len(steps)] = "sign"
                /\ call[c].req = Nil => StepCount(c, "sign") = 0

C23_Witness ==
    \E c \in Callers :
        /\ call[c].pc = "done"
        /\ call[c].steps = <<"resolve", "encode", "build", "sign", "dispatch", "read",
                             "decode", "classify">>

\* caller c's call entered doRequest
InDoRequest(c) == call[c].pc # "idle" /\ OpPre(call[c].op).err = Nil

\* the transport gave caller c a response and its body was read in full
BodyRead(c) ==
    /\ call[c].outcome # Nil
    /\ call[c].outcome.err = Nil
    /\ call[c].outcome.readErr = Nil

\* C24 as stated: the encoder runs (once) exactly when the request body is
\* not nil, and the decoder runs exactly once exactly when a response was
\* received and its body read in full.
C24_Original ==
    \A c \in Callers :
        InDoRequest(c) =>
            /\ StepCount(c, "encode") <= 1
            /\ StepCount(c, "encode") = 1 <=> OpPre(call[c].op).body # Nil
            /\ call[c].pc = "done" =>
                  /\ StepCount(c, "decode") <= 1
                  /\ StepCount(c, "decode") = 1 <=> BodyRead(c)

\* C24: the encoder runs (once) exactly when the path parses and the
\* request body is not nil, so never for a call without a body; the decoder
\* runs exactly once exactly when a response was received and its body read
\* in full.
C24_EncoderAndDecoderCalls ==
    \A c \in Callers :
        InDoRequest(c) =>
            /\ StepCount(c, "encode") <= 1
            /\ StepCount(c, "encode") = 1
                  <=> /\ OpPre(call[c].op).body # Nil
                      /\ ~Contains(OpPre(call[c].op).path, BadEscapeSym)
            /\ StepCount(c, "decode") <= 1
            /\ call[c].pc = "dispatching" => StepCount(c, "decode") = 0
            /\ call[c].pc = "done" => (StepCount(c, "decode") = 1 <=> BodyRead(c))

C24_Witness ==
    \E c \in Callers :
        /\ call[c].pc = "done"
        /\ call[c].op.name = "SendDeviceCommand"
        /\ call[c].op.deviceID = <<BadEscapeSym>>
        /\ call[c].op.command # <<>>
        /\ call[c].steps = <<"resolve">>

\* caller c's doRequest call has returned
DoRequestReturned(c) ==
    call[c].pc = "done" /\ OpPre(call[c].op).err = Nil

\* C25: doRequest returns a Response exactly when it returns a nil error:
\* one of the two is nil and the other is not, and with an error the caller
\* gets no envelope.
C25_ResponseXorError ==
    \A c \in Callers :
        DoRequestReturned(c) =>
            /\ call[c].resp # Nil <=> call[c].err = Nil
            /\ call[c].resp # Nil => call[c].resp.kind = "Response"
            /\ call[c].err # Nil => (call[c].val = Nil /\ call[c].outErr = call[c].err)

C25_Witness ==
    \E c \in Callers :
        /\ DoRequestReturned(c)
        /\ GotEnvelope(c)
        /\ call[c].outcome.status = 500
        /\ Decoded(c).resp.StatusCode = 100
        /\ call[c].resp = Nil
        /\ IsAPIError(call[c].err)

\* C26: doRequest returns a nil error only when the transport gave a
\* response with a status below 400 whose body was read and decoded as an
\* envelope with a statusCode outside {151, 152, 160, 161, 171, 190}.
C26_SuccessOnlyIf ==
    \A c \in Callers :
        (DoRequestReturned(c) /\ call[c].err = Nil) =>
            /\ call[c].outcome # Nil
            /\ call[c].outcome.err = Nil
            /\ call[c].outcome.readErr = Nil
            /\ call[c].outcome.status < 400
            /\ Decoded(c).err = Nil
            /\ Decoded(c).resp.StatusCode \notin {151, 152, 160, 161, 171, 190}

C26_Witness ==
    \E c \in Callers :
        /\ DoRequestReturned(c)
        /\ call[c].err = Nil
        /\ call[c].outcome.status = 399
        /\ Decoded(c).resp.StatusCode = 101

\* C27: every request a public method hands to the transport has a path
\* that starts with "/v1.1/" and the scheme and host of the client's base
\* URL, whatever the non-empty deviceID or sceneID, "/", "..", "?" and "#"
\* included.
C27_PathUnderAPIVersion ==
    \A c \in Callers :
        call[c].req # Nil =>
            /\ HasPrefix(call[c].req.url.Path, <<"/", "v1.1", "/">>)
            /\ call[c].req.url.Scheme = client.baseURL.Scheme
            /\ call[c].req.url.Host = client.baseURL.Host

\* the positions of the options of this kind, and the last of them (0 when
\* there is none)
OptionsOf(options, opt) == {i \in DOMAIN options : options[i].opt = opt}

LastOption(options, opt) ==
    IF OptionsOf(options, opt) = {} THEN 0
    ELSE CHOOSE i \in OptionsOf(options, opt) : \A j \in OptionsOf(options, opt) : j <= i

\* the first option NewClient cannot apply (0 when there is none)
FirstFailing(options) ==
    IF \A i \in DOMAIN options : ~OptionFails(options[i]) THEN 0
    ELSE CHOOSE i \in DOMAIN options :
            OptionFails(options[i]) /\ \A j \in 1 .. (i - 1) : ~OptionFails(options[j])

\* C28: with credentials, NewClient returns no client and the error of the
\* first option that fails; when none fails, each field of the client is
\* what the last option for that field set, or the default (default HTTP
\* client, DefaultBaseURL, json.Marshal, json.Unmarshal) when there is
\* none; WithHTTPClient(nil) is no error and gives the default HTTP client.
C28_OptionsInOrder ==
    (ctorArgs # Nil /\ ctorArgs.token # <<>> /\ ctorArgs.secret # <<>>) =>
        LET opts == ctorArgs.options
            f == FirstFailing(opts)
            h == LastOption(opts, "WithHTTPClient")
            b == LastOption(opts, "WithBaseURL")
            e == LastOption(opts, "WithJSONEncoder")
            d == LastOption(opts, "WithJSONDecoder")
        IN  IF f # 0 THEN
                /\ client = Nil
                /\ newErr # Nil
                /\ newErr.msg = "failed to apply client option"
                /\ newErr.cause = ApplyOption(opts[f], DefaultClient(<<"x">>, <<"y">>)).err
            ELSE
                /\ newErr = Nil
                /\ client # Nil
                /\ client.token = ctorArgs.token
                /\ client.secret = ctorArgs.secret
                /\ client.httpClient = IF h = 0 \/ opts[h].httpClient = "nil"
                                       THEN "http.DefaultClient"
                                       ELSE opts[h].httpClient
                /\ client.baseURL = IF b = 0
                                    THEN [EmptyURL EXCEPT !.Scheme = "https",
                                                          !.Host = <<"api.switch-bot.com">>]
                                    ELSE ParseURL(opts[b].baseURL).url
                /\ client.jsonEncoder = IF e = 0 THEN "json.Marshal" ELSE opts[e].encoder
                /\ client.jsonDecoder = IF d = 0 THEN "json.Unmarshal" ELSE opts[d].decoder

C28_Witness ==
    /\ ctorArgs # Nil
    /\ ctorArgs.options = <<[opt |-> "WithHTTPClient", httpClient |-> "custom"],
                            [opt |-> "WithHTTPClient", httpClient |-> "nil"]>>
    /\ client # Nil
    /\ client.httpClient = "http.DefaultClient"

\* C29: the body SendDeviceCommand sends has the caller's command, the
\* caller's parameter or "default" when it is nil, and the caller's
\* commandType or "command" when it is empty.
C29_CommandDefaults ==
    \A c \in Callers :
        (call[c].req # Nil /\ call[c].op.name = "SendDeviceCommand") =>
            LET op == call[c].op
            IN  call[c].req.body =
                    <<"{\"command\":\"">> \o op.command
                    \o <<"\",\"commandType\":\"">>
                    \o (IF op.commandType = <<>> THEN <<"command">> ELSE op.commandType)
                    \o <<"\",\"parameter\":">>
                    \o <<"\"">>
                    \o (IF op.parameter.t = "nil" THEN <<"default">> ELSE op.parameter.v)
                    \o <<"\"">>
                    \o <<"}">>

C29_Witness ==
    \E c \in Callers :
        /\ call[c].pc = "dispatching"
        /\ call[c].op.name = "SendDeviceCommand"
        /\ call[c].op.parameter.t = "nil"
        /\ call[c].op.commandType = <<>>
        /\ Contains(call[c].req.body, "default")
        /\ Contains(call[c].req.body, "command")

\* the digit a character stands for, in base 10 or 16
DigitValue(ch) == (CHOOSE k \in DOMAIN HexDigits : HexDigits[k] = ch) - 1

RECURSIVE NumberIn(_, _)
\* the number a text of digits spells in this base
NumberIn(text, base) ==
    IF text = <<>> THEN 0
    ELSE NumberIn(SubSeq(text, 1, Len(text) - 1), base) * base
         + DigitValue(text[Len(text)])

\* the first 48 bits of a nonce: its first twelve hexadecimal digits
NonceMillis(nonce) == NumberIn(SubSeq(nonce, 1, 8) \o SubSeq(nonce, 10, 13), 16)

\* C30: the t header of a signed request spells, in base 10, the clock's
\* millisecond value read when signing; the first 48 bits of a generated
\* nonce are the clock's millisecond value read when generating it; and the
\* time in a request's nonce is never before the time in its t header.
C30_TimestampsFollowClock ==
    /\ \A c \in Callers :
          call[c].req # Nil =>
              LET t == HeaderGet(call[c].req.header, "t")
                  n == HeaderGet(call[c].req.header, "nonce")
              IN  /\ t # <<>>
                  /\ \A k \in DOMAIN t : t[k] \in {DecDigits[d] : d \in DOMAIN DecDigits}
                  /\ NumberIn(t, 10) = call[c].nowT
                  /\ n # <<>> =>
                        /\ NonceMillis(n) = call[c].nowN
                        /\ NonceMillis(n) >= NumberIn(t, 10)
    /\ \A i \in NonceEvals :
          evals[i].err = Nil => NonceMillis(evals[i].uuid) = evals[i].now

C30_Witness ==
    \E c \in Callers :
        /\ call[c].req # Nil
        /\ HeaderGet(call[c].req.header, "t") = <<"2", "5", "5">>
        /\ Len(HeaderGet(call[c].req.header, "nonce")) = 36
        /\ SubSeq(HeaderGet(call[c].req.header, "nonce"), 1, 13)
              = <<"0", "0", "0", "0", "0", "0", "0", "0", "-", "0", "1", "0", "0">>

====
